---------------------------- MODULE Spec2Model ----------------------------
(***************************************************************************)
(* Model of advanced-api-project (api/models.py, api/serializers.py,       *)
(* api/views.py): the Author/Book store and the generic views that read    *)
(* and write it.  One action per HTTP handler; every action records the    *)
(* request it served and the response it gave in the variable last.        *)
(*                                                                         *)
(* Strings that the code inspects (titles, names) are sequences of         *)
(* character codes, so that strip(), title() and the ordering of titles    *)
(* are computed and not assumed.  Response messages are sequences of       *)
(* words.  Timestamps (created_at, updated_at) are not modelled.           *)
(*                                                                         *)
(* The handlers are modelled as written, each name with the meaning it has *)
(* in Django REST framework; URL reversing and module loading are taken to *)
(* succeed.                                                                *)
(*                                                                         *)
(* LibraryProject (advanced_features_and_security) is modelled next to it: *)
(* the users, the UserProfile rows that relationship_app's post_save       *)
(* receivers keep, its role-guarded views, and bookshelf's Post and        *)
(* Comment views behind login_required and permission_required.            *)
(***************************************************************************)
EXTENDS Integers, Sequences, FiniteSets, TLC

VARIABLES authors, books, next_author_id, next_book_id, last,
          customusers, userprofiles, held, user_permissions, posts, comments,
          next_post_id, next_comment_id,
          destroying, creating

vars == <<authors, books, next_author_id, next_book_id, last,
          customusers, userprofiles, held, user_permissions, posts, comments,
          next_post_id, next_comment_id,
          destroying, creating>>

----------------------------------------------------------------------------
(* Bounds of the model *)

MaxAuthors == 2
MaxBooks == 2

(* timezone.now().year, read by the validators *)
current_year == 2026

(* Character codes *)
SP == 32
UpperA == 65
UpperZ == 90
LowerA == 97
LowerZ == 122
CaseOffset == 32

(* Inputs of the requests *)
TitleInputs == { <<>>, <<SP>>, <<SP, LowerA>>, <<UpperA>> }
NameInputs == { <<>>, <<SP, LowerA>> }
YearInputs == { 999, 1000, current_year, current_year + 1 }
AuthorIdInputs == 1..MaxAuthors
BookIdInputs == 1..MaxBooks

----------------------------------------------------------------------------
(* Users and credentials *)

Anonymous == "anonymous"
Users == { "testuser", "adminuser" }
Credentials == { "none", "regular_token", "admin_token" }

is_staff(user) == user = "adminuser"

(* rest_framework TokenAuthentication: the user a token belongs to *)
Authenticate(cred) ==
    CASE cred = "regular_token" -> "testuser"
      [] cred = "admin_token" -> "adminuser"
      [] OTHER -> Anonymous

(* Permission classes named by the views *)
AllowAny(user) == TRUE
IsAuthenticated(user) == user # Anonymous
IsAdminUser(user) == user # Anonymous /\ is_staff(user)

(* APIView.permission_denied: 401 without credentials, 403 with them *)
permission_denied(user) == IF user = Anonymous THEN 401 ELSE 403

NotAuthenticatedBody == [detail |-> <<"Authentication", "credentials", "were", "not", "provided.">>]
PermissionDeniedBody == [detail |-> <<"You", "do", "not", "have", "permission", "to", "perform", "this", "action.">>]
NotFoundBody == [detail |-> <<"Not", "found.">>]

DeniedBody(user) == IF user = Anonymous THEN NotAuthenticatedBody ELSE PermissionDeniedBody

----------------------------------------------------------------------------
(* Strings *)

IsUpper(c) == c >= UpperA /\ c <= UpperZ
IsLower(c) == c >= LowerA /\ c <= LowerZ
IsCased(c) == IsUpper(c) \/ IsLower(c)
ToUpper(c) == IF IsLower(c) THEN c - CaseOffset ELSE c
ToLower(c) == IF IsUpper(c) THEN c + CaseOffset ELSE c

RECURSIVE LStrip(_)
LStrip(s) == IF s # <<>> /\ Head(s) = SP THEN LStrip(Tail(s)) ELSE s

RECURSIVE RStrip(_)
RStrip(s) == IF s # <<>> /\ s[Len(s)] = SP THEN RStrip(SubSeq(s, 1, Len(s) - 1)) ELSE s

(* str.strip() *)
Strip(s) == RStrip(LStrip(s))

(* str.title(): a cased character is upper-cased after an uncased one (or at
   the start) and lower-cased after a cased one *)
TitleCase(s) ==
    [i \in 1..Len(s) |->
        IF i > 1 /\ IsCased(s[i - 1]) THEN ToLower(s[i]) ELSE ToUpper(s[i])]

(* s < t in code-point order, the order of the database's text comparison *)
RECURSIVE StrLess(_, _)
StrLess(s, t) ==
    IF t = <<>> THEN FALSE
    ELSE IF s = <<>> THEN TRUE
    ELSE IF Head(s) # Head(t) THEN Head(s) < Head(t)
    ELSE StrLess(Tail(s), Tail(t))

StrLeq(s, t) == s = t \/ StrLess(s, t)

(* words contains the consecutive words of phrase *)
ContainsWords(words, phrase) ==
    \E i \in 0..(Len(words) - Len(phrase)) :
        \A j \in 1..Len(phrase) : words[i + j] = phrase[j]

----------------------------------------------------------------------------
(* The store *)

Author_max_length == 100
Book_max_length == 200
MinYear == 1000

AuthorIds == { a.id : a \in authors }
BookIds == { b.id : b \in books }

AuthorById(pk) == CHOOSE a \in authors : a.id = pk
BookById(pk) == CHOOSE b \in books : b.id = pk

(* instance.books: the reverse side of Book.author *)
BooksOf(pk) == { b \in books : b.author = pk }

(* Author.clean: TRUE when it raises ValidationError *)
Author_clean_raises(name) == name = <<>> \/ Strip(name) = <<>>

(* Author.clean: the name it leaves on the instance *)
Author_clean(name) == TitleCase(Strip(name))

(* a clean that lets a future year pass *)
Book_clean_raises_not_for_future(title, year) ==
    \/ title = <<>> \/ Strip(title) = <<>>
    \/ year < MinYear

(* Book.clean: TRUE when it raises ValidationError *)
Book_clean_raises(title, year) ==
    \/ title = <<>> \/ Strip(title) = <<>>
    \/ year > current_year
    \/ year < MinYear

(* Book.clean: the title it leaves on the instance *)
Book_clean(title) == Strip(title)

(* unique_together = ['title', 'author'], seen by another row than exclude *)
UniqueTogetherTaken(title, author, exclude) ==
    \E b \in books : b.id # exclude /\ b.title = title /\ b.author = author

----------------------------------------------------------------------------
(* Requests and responses *)

NoData == [k \in {} |-> 0]

Response(view, method, user, pk, data, status, body) ==
    [view |-> view, method |-> method, user |-> user, pk |-> pk,
     data |-> data, status |-> status, body |-> body]

(* the book-creation requests that can be under way at once *)
MaxCreators == 2

Creators == 1..MaxCreators

(* no request under way *)
Idle == [pc |-> "idle"]

(* destroying is the AuthorDeleteView.destroy request under way and
   creating[w] the BookCreateView.create request number w: Idle, or where the
   request stands and what it has read so far *)
InFlightInit ==
    /\ destroying = Idle
    /\ creating = [w \in Creators |-> Idle]

(* requests that are handled in one piece leave none under way *)
InFlightUnchanged == UNCHANGED <<destroying, creating>>

(* LibraryProject: the users that can exist, by their email (USERNAME_FIELD) *)
Emails == { "a@example.com", "b@example.com" }

(* a user instance in memory that has not read its userprofile *)
Unheld == "unheld"

(* LibraryProject's tables after migrate: no rows.  held[e] is what the
   instance of user e that a process holds has cached as its userprofile's
   role *)
LibraryInit ==
    /\ customusers = {}
    /\ userprofiles = {}
    /\ held = [e \in Emails |-> Unheld]
    /\ user_permissions = [e \in Emails |-> {}]
    /\ posts = {}
    /\ comments = {}
    /\ next_post_id = 1
    /\ next_comment_id = 1
    /\ InFlightInit

(* the API project does not touch LibraryProject's tables *)
LibraryUnchanged ==
    /\ UNCHANGED <<customusers, userprofiles, held, user_permissions, posts, comments,
                   next_post_id, next_comment_id>>
    /\ InFlightUnchanged

Init ==
    /\ authors = {}
    /\ books = {}
    /\ next_author_id = 1
    /\ next_book_id = 1
    /\ last = Response("none", "none", Anonymous, 0, NoData, 0, NoData)
    /\ LibraryInit

----------------------------------------------------------------------------
(* Querysets: order_by and pagination *)

(* every sequence that lists the rows of S once each *)
Listings(S) ==
    { seq \in [1..Cardinality(S) -> S] :
        \A i, j \in 1..Cardinality(S) : i # j => seq[i] # seq[j] }

AuthorName(pk) == AuthorById(pk).name

(* row a may come before row b under order_by(term); rows equal in the
   ordering field may come in either order *)
order_by_allows(term, a, b) ==
    CASE term = "title" -> StrLeq(a.title, b.title)
      [] term = "-title" -> StrLeq(b.title, a.title)
      [] term = "publication_year" -> a.publication_year <= b.publication_year
      [] term = "-publication_year" -> b.publication_year <= a.publication_year
      [] term = "author__name" -> StrLeq(AuthorName(a.author), AuthorName(b.author))
      [] term = "-author__name" -> StrLeq(AuthorName(b.author), AuthorName(a.author))
      [] term = "name" -> StrLeq(a.name, b.name)

(* the results the database may return for S.order_by(term) *)
order_by(S, term) ==
    { seq \in Listings(S) :
        \A i, j \in 1..Len(seq) : i < j => order_by_allows(term, seq[i], seq[j]) }

BookPagination_page_size == 5
AuthorPagination_page_size == 10

Min(a, b) == IF a <= b THEN a ELSE b

(* PageNumberPagination: the first page of seq *)
first_page(seq, page_size) == SubSeq(seq, 1, Min(page_size, Len(seq)))

(* number of pages of count rows; a queryset without rows has one page *)
num_pages(count, page_size) ==
    IF count = 0 THEN 1 ELSE (count + page_size - 1) \div page_size

----------------------------------------------------------------------------
(* AuthorSerializer *)

(* CharField(max_length=100) then validate_name: the error of field 'name',
   <<>> when there is none *)
AuthorSerializer_name_error(data) ==
    IF "name" \notin DOMAIN data THEN <<"This", "field", "is", "required.">>
    ELSE IF Strip(data.name) = <<>> THEN <<"This", "field", "may", "not", "be", "blank.">>
    ELSE IF Len(Strip(data.name)) > Author_max_length THEN <<"Ensure", "this", "field", "has", "no", "more", "than", "100", "characters.">>
    ELSE <<>>

(* AuthorSerializer.validate_name: the validated value *)
AuthorSerializer_validate_name(value) == TitleCase(Strip(value))

AuthorSerializer_errors(data) ==
    [k \in { f \in {"name"} : AuthorSerializer_name_error(data) # <<>> } |->
        AuthorSerializer_name_error(data)]

(* AuthorSummarySerializer output *)
AuthorSummarySerializer_data(a) ==
    [id |-> a.id, name |-> a.name, book_count |-> Cardinality(BooksOf(a.id))]

----------------------------------------------------------------------------
(* BookSerializer *)

(* BookSerializer output; author_name has source 'author.name' *)
BookSerializer_data(b) ==
    [id |-> b.id, title |-> b.title, publication_year |-> b.publication_year,
     author |-> b.author, author_name |-> AuthorById(b.author).name]

(* BookSerializer.validate_title: TRUE when it raises ValidationError *)
validate_title_raises(value) == value = <<>> \/ Strip(value) = <<>>

(* BookSerializer.validate_title: the validated value *)
validate_title(value) == Strip(value)

(* BookSerializer.validate_publication_year: the error it raises, <<>> when none *)
validate_publication_year(value) ==
    IF value > current_year
    THEN <<"Publication", "year", "cannot", "be", "in", "the", "future.">>
    ELSE IF value < MinYear
    THEN <<"Publication", "year", "must", "be", "after", "1000", "AD.">>
    ELSE <<>>

Required == <<"This", "field", "is", "required.">>

(* field 'title': CharField(max_length=200), blank not allowed, input trimmed,
   then validate_title *)
title_error(data, partial) ==
    IF "title" \notin DOMAIN data THEN (IF partial THEN <<>> ELSE Required)
    ELSE IF Strip(data.title) = <<>> THEN <<"This", "field", "may", "not", "be", "blank.">>
    ELSE IF Len(Strip(data.title)) > Book_max_length THEN <<"Ensure", "this", "field", "has", "no", "more", "than", "200", "characters.">>
    ELSE IF validate_title_raises(Strip(data.title)) THEN <<"Book", "title", "cannot", "be", "empty.">>
    ELSE <<>>

(* field 'publication_year': IntegerField, then validate_publication_year *)
publication_year_error(data, partial) ==
    IF "publication_year" \notin DOMAIN data THEN (IF partial THEN <<>> ELSE Required)
    ELSE validate_publication_year(data.publication_year)

(* field 'author': PrimaryKeyRelatedField over Author.objects.all() *)
author_error(data, partial) ==
    IF "author" \notin DOMAIN data THEN (IF partial THEN <<>> ELSE Required)
    ELSE IF data.author \notin AuthorIds THEN <<"Invalid", "pk", "-", "object", "does", "not", "exist.">>
    ELSE <<>>

BookFieldError(f, data, partial) ==
    CASE f = "title" -> title_error(data, partial)
      [] f = "publication_year" -> publication_year_error(data, partial)
      [] f = "author" -> author_error(data, partial)

BookFields == {"title", "publication_year", "author"}

(* validation that stops at the first invalid field *)
BookFieldErrors_first_only(data, partial) ==
    LET first == IF BookFieldError("title", data, partial) # <<>> THEN {"title"}
                 ELSE IF BookFieldError("publication_year", data, partial) # <<>> THEN {"publication_year"}
                 ELSE IF BookFieldError("author", data, partial) # <<>> THEN {"author"}
                 ELSE {}
    IN  [f \in first |-> BookFieldError(f, data, partial)]

(* Serializer.to_internal_value: every field is validated and the errors of
   all of them are collected under the field names *)
BookFieldErrors(data, partial) ==
    [f \in { g \in BookFields : BookFieldError(g, data, partial) # <<>> } |->
        BookFieldError(f, data, partial)]

(* the attributes the serializer would save: the validated fields, and for
   the fields a partial update leaves out, those of the instance *)
BookAttrs(data, instance) ==
    [title |-> IF "title" \in DOMAIN data THEN validate_title(Strip(data.title)) ELSE instance.title,
     publication_year |-> IF "publication_year" \in DOMAIN data THEN data.publication_year ELSE instance.publication_year,
     author |-> IF "author" \in DOMAIN data THEN data.author ELSE instance.author]

NoInstance == [id |-> 0, title |-> <<>>, publication_year |-> 0, author |-> 0]

(* Serializer.is_valid: field errors first; the UniqueTogetherValidator that
   Meta.unique_together gives the ModelSerializer runs when there are none *)
BookSerializer_errors(data, instance, partial) ==
    IF DOMAIN BookFieldErrors(data, partial) # {}
    THEN BookFieldErrors(data, partial)
    ELSE IF UniqueTogetherTaken(BookAttrs(data, instance).title,
                                BookAttrs(data, instance).author, instance.id)
    THEN [k \in {"non_field_errors"} |-> <<"The", "fields", "title,", "author", "must", "make", "a", "unique", "set.">>]
    ELSE NoData

(* Book.save's full_clean on row: TRUE when it raises ValidationError.
   clean_fields checks blank, max_length and the author's existence, then
   Book.clean runs, then validate_unique checks unique_together on the
   cleaned title *)
Book_full_clean_raises(row) ==
    \/ row.title = <<>>
    \/ Len(row.title) > Book_max_length
    \/ row.author \notin AuthorIds
    \/ Book_clean_raises(row.title, row.publication_year)
    \/ UniqueTogetherTaken(Book_clean(row.title), row.author, row.id)

(* Book.save: full_clean() then the row is written; books after the save *)
Book_save(row) ==
    { b \in books : b.id # row.id } \cup
        { [id |-> row.id, title |-> Book_clean(row.title),
           publication_year |-> row.publication_year, author |-> row.author] }

(* a create that drops the submitted year *)
BookSerializer_create_without_year(attrs) ==
    [id |-> next_book_id, title |-> attrs.title,
     publication_year |-> current_year, author |-> attrs.author]

(* BookSerializer.create: Book.objects.create of validated_data *)
BookSerializer_create(attrs) ==
    [id |-> next_book_id, title |-> attrs.title,
     publication_year |-> attrs.publication_year, author |-> attrs.author]

(* BookSerializer.update: the three fields are set from validated_data *)
BookSerializer_update(instance, attrs) ==
    [id |-> instance.id, title |-> attrs.title,
     publication_year |-> attrs.publication_year, author |-> attrs.author]

(* Request bodies for a book *)
FullBookData ==
    { [title |-> t, publication_year |-> y, author |-> a] :
        t \in TitleInputs, y \in YearInputs, a \in AuthorIdInputs }
TitleOnlyBookData == { [title |-> t] : t \in TitleInputs }
BookDataInputs == FullBookData \cup TitleOnlyBookData \cup { NoData }
(* AuthorSerializer output for the author pk named name: the nested books
   come in Book.Meta.ordering, which unique_together makes a total order
   within one author *)
AuthorSerializer_data(pk, name) ==
    LET listed == CHOOSE seq \in order_by(BooksOf(pk), "title") : TRUE
    IN  [id |-> pk, name |-> name,
         book_count |-> Cardinality(BooksOf(pk)),
         books |-> [i \in 1..Len(listed) |->
                      [id |-> listed[i].id, title |-> listed[i].title,
                       publication_year |-> listed[i].publication_year,
                       author |-> pk, author_name |-> name]]]

----------------------------------------------------------------------------
(* Author views *)

FString(fmt, args) == [fmt |-> fmt, args |-> args]

Unchanged == UNCHANGED <<authors, books, next_author_id, next_book_id>>

AuthorCreateView_permission(user) == IsAuthenticated(user)
AuthorUpdateView_permission(user) == IsAuthenticated(user)
AuthorDeleteView_permission(user) == IsAdminUser(user)
AuthorListView_permission(user) == AllowAny(user)
AuthorDetailView_permission(user) == AllowAny(user)

AuthorDataInputs == { [name |-> n] : n \in NameInputs } \cup { NoData }

(* Author.save: full_clean() then the row is written; authors after the save *)
Author_save(row) ==
    { a \in authors : a.id # row.id } \cup
        { [id |-> row.id, name |-> Author_clean(row.name)] }

(* POST authors/create/ *)
AuthorCreateView_create(cred, data) ==
    LET user == Authenticate(cred)
        R(status, body) == Response("AuthorCreateView", "POST", user, 0, data, status, body)
    IN  IF ~AuthorCreateView_permission(user)
        THEN /\ last' = R(permission_denied(user), DeniedBody(user))
             /\ Unchanged
        ELSE IF DOMAIN AuthorSerializer_errors(data) # {}
        THEN /\ last' = R(400, AuthorSerializer_errors(data))
             /\ Unchanged
        ELSE LET row == [id |-> next_author_id,
                         name |-> AuthorSerializer_validate_name(data.name)]
             IN  /\ next_author_id <= MaxAuthors
                 /\ ~Author_clean_raises(row.name)
                 /\ authors' = Author_save(row)
                 /\ next_author_id' = next_author_id + 1
                 /\ last' = R(201, [message |-> <<"Author", "created", "successfully">>,
                                    author |-> AuthorSerializer_data(row.id, Author_clean(row.name))])
                 /\ UNCHANGED <<books, next_book_id>>

(* PUT authors/<pk>/update/ : UpdateModelMixin.update with AuthorSerializer.update *)
AuthorUpdateView_update(cred, pk, data) ==
    LET user == Authenticate(cred)
        R(status, body) == Response("AuthorUpdateView", "PUT", user, pk, data, status, body)
    IN  IF ~AuthorUpdateView_permission(user)
        THEN /\ last' = R(permission_denied(user), DeniedBody(user))
             /\ Unchanged
        ELSE IF pk \notin AuthorIds
        THEN /\ last' = R(404, NotFoundBody)
             /\ Unchanged
        ELSE IF DOMAIN AuthorSerializer_errors(data) # {}
        THEN /\ last' = R(400, AuthorSerializer_errors(data))
             /\ Unchanged
        ELSE LET row == [id |-> pk, name |-> AuthorSerializer_validate_name(data.name)]
             IN  /\ ~Author_clean_raises(row.name)
                 /\ authors' = Author_save(row)
                 /\ last' = R(200, AuthorSerializer_data(pk, Author_clean(row.name)))
                 /\ UNCHANGED <<books, next_author_id, next_book_id>>

(* perform_destroy(author): the row is deleted and, Book.author being
   on_delete=CASCADE, so are the books that reference it *)
Author_delete(pk) ==
    /\ authors' = { a \in authors : a.id # pk }
    /\ books' = { b \in books : b.author # pk }

(* the guard with the bound off by one: an author with one book is let through *)
AuthorDeleteView_refuses_more_than_one(book_count) == book_count > 1

(* the guard without its condition: every author is refused *)
AuthorDeleteView_refuses_always(book_count) == book_count >= 0

(* AuthorDeleteView.destroy: the guard on the author's books *)
AuthorDeleteView_refuses(book_count) == book_count > 0

(* DELETE authors/<pk>/delete/ *)
AuthorDeleteView_destroy(cred, pk) ==
    LET user == Authenticate(cred)
        R(status, body) == Response("AuthorDeleteView", "DELETE", user, pk, NoData, status, body)
    IN  IF ~AuthorDeleteView_permission(user)
        THEN /\ last' = R(permission_denied(user), DeniedBody(user))
             /\ Unchanged
        ELSE IF pk \notin AuthorIds
        THEN /\ last' = R(404, NotFoundBody)
             /\ Unchanged
        ELSE LET instance == AuthorById(pk)
                 book_count == Cardinality(BooksOf(pk))
             IN  IF AuthorDeleteView_refuses(book_count)
                 THEN /\ last' = R(400, [error |-> FString(
                            <<"Cannot", "delete", "author", "{instance.name}", "because",
                              "they", "have", "{book_count}", "book(s)", "associated.",
                              "Please", "delete", "or", "reassign", "the", "books", "first.">>,
                            [name |-> instance.name, book_count |-> book_count])])
                      /\ Unchanged
                 ELSE /\ Author_delete(pk)
                      /\ last' = R(200, [message |-> FString(
                            <<"Author", "{author_name}", "has", "been", "successfully", "deleted", ".">>,
                            [author_name |-> instance.name])])
                      /\ UNCHANGED <<next_author_id, next_book_id>>
(* GET authors-list/ : ListAPIView, ordering = ['name'], AuthorPagination *)
AuthorListView_list(cred) ==
    LET user == Authenticate(cred)
        R(status, body) == Response("AuthorListView", "GET", user, 0, NoData, status, body)
    IN  /\ IF ~AuthorListView_permission(user)
           THEN last' = R(permission_denied(user), DeniedBody(user))
           ELSE \E seq \in order_by(authors, "name") :
                  last' = R(200, [count |-> Len(seq),
                                  results |-> [i \in 1..Len(first_page(seq, AuthorPagination_page_size)) |->
                                                 AuthorSummarySerializer_data(seq[i])]])
        /\ Unchanged

(* GET authors-list/<pk>/ : RetrieveAPIView *)
AuthorDetailView_retrieve(cred, pk) ==
    LET user == Authenticate(cred)
        R(status, body) == Response("AuthorDetailView", "GET", user, pk, NoData, status, body)
    IN  /\ IF ~AuthorDetailView_permission(user)
           THEN last' = R(permission_denied(user), DeniedBody(user))
           ELSE IF pk \notin AuthorIds
           THEN last' = R(404, NotFoundBody)
           ELSE last' = R(200, AuthorSerializer_data(pk, AuthorName(pk)))
        /\ Unchanged

----------------------------------------------------------------------------
(* Book views that write *)

(* the list view closed to callers without credentials *)
BookListView_permission_authenticated(user) == IsAuthenticated(user)

BookListView_permission(user) == AllowAny(user)
BookDetailView_permission(user) == AllowAny(user)

(* the create view left open to every caller *)
BookCreateView_permission_open(user) == AllowAny(user)

BookCreateView_permission(user) == IsAuthenticated(user)

(* the update view left open to every caller *)
BookUpdateView_permission_open(user) == AllowAny(user)

BookUpdateView_permission(user) == IsAuthenticated(user)

(* the delete view open to every authenticated caller *)
BookDeleteView_permission_authenticated(user) == IsAuthenticated(user)

BookDeleteView_permission(user) == IsAdminUser(user)
BookAdvancedSearchView_permission(user) == AllowAny(user)
RecentBooksView_permission(user) == AllowAny(user)

(* serializer.save() of a valid create: the row is written under a new id *)
perform_create(data) ==
    /\ next_book_id <= MaxBooks
    /\ ~Book_clean_raises(BookAttrs(data, NoInstance).title,
                          BookAttrs(data, NoInstance).publication_year)
    /\ books' = Book_save(BookSerializer_create(BookAttrs(data, NoInstance)))
    /\ next_book_id' = next_book_id + 1
    /\ UNCHANGED <<authors, next_author_id>>

(* the representation of the row perform_create wrote *)
created_data(data) ==
    LET attrs == BookAttrs(data, NoInstance)
    IN  [id |-> next_book_id, title |-> Book_clean(attrs.title),
         publication_year |-> attrs.publication_year, author |-> attrs.author,
         author_name |-> AuthorName(attrs.author)]

(* POST books/create/ *)
BookCreateView_create(cred, data) ==
    LET user == Authenticate(cred)
        R(status, body) == Response("BookCreateView", "POST", user, 0, data, status, body)
        errors == BookSerializer_errors(data, NoInstance, FALSE)
    IN  IF ~BookCreateView_permission(user)
        THEN /\ last' = R(permission_denied(user), DeniedBody(user))
             /\ Unchanged
        ELSE IF DOMAIN errors # {}
        THEN /\ last' = R(400, errors)
             /\ Unchanged
        ELSE /\ perform_create(data)
             /\ last' = R(201, [message |-> <<"Book", "created", "successfully">>,
                                book |-> created_data(data),
                                links |-> [detail |-> next_book_id, list |-> "book-list"]])

ValidationError == [raised |-> "ValidationError"]

(* Book.objects.create(title, author, publication_year) called on the model,
   as the model tests and the admin do: Book.save *)
Book_objects_create(data) ==
    LET row == [id |-> next_book_id, title |-> data.title,
                publication_year |-> data.publication_year, author |-> data.author]
        R(body) == Response("Book.save", "create", Anonymous, 0, data, 0, body)
    IN  IF Book_full_clean_raises(row)
        THEN /\ last' = R(ValidationError)
             /\ Unchanged
        ELSE /\ next_book_id <= MaxBooks
             /\ books' = Book_save(row)
             /\ next_book_id' = next_book_id + 1
             /\ UNCHANGED <<authors, next_author_id>>
             /\ last' = R(NoData)

(* a stored book is given a title, a year and an author, and saved: Book.save *)
Book_instance_save(pk, data) ==
    LET row == [id |-> pk, title |-> data.title,
                publication_year |-> data.publication_year, author |-> data.author]
        R(body) == Response("Book.save", "update", Anonymous, pk, data, 0, body)
    IN  /\ pk \in BookIds
        /\ IF Book_full_clean_raises(row)
           THEN /\ last' = R(ValidationError)
                /\ Unchanged
           ELSE /\ books' = Book_save(row)
                /\ UNCHANGED <<authors, next_author_id, next_book_id>>
                /\ last' = R(NoData)

(* POST books-list/ : ListCreateAPIView, CreateModelMixin.create *)
BookListView_create(cred, data) ==
    LET user == Authenticate(cred)
        R(status, body) == Response("BookListView", "POST", user, 0, data, status, body)
        errors == BookSerializer_errors(data, NoInstance, FALSE)
    IN  IF ~BookListView_permission(user)
        THEN /\ last' = R(permission_denied(user), DeniedBody(user))
             /\ Unchanged
        ELSE IF DOMAIN errors # {}
        THEN /\ last' = R(400, errors)
             /\ Unchanged
        ELSE /\ perform_create(data)
             /\ last' = R(201, created_data(data))

(* serializer.save() of a valid update: BookSerializer.update then Book.save *)
perform_update(instance, data) ==
    /\ ~Book_clean_raises(BookAttrs(data, instance).title,
                          BookAttrs(data, instance).publication_year)
    /\ books' = Book_save(BookSerializer_update(instance, BookAttrs(data, instance)))
    /\ UNCHANGED <<authors, next_author_id, next_book_id>>

(* the representation of the row perform_update wrote *)
updated_data(instance, data) ==
    LET attrs == BookAttrs(data, instance)
    IN  [id |-> instance.id, title |-> Book_clean(attrs.title),
         publication_year |-> attrs.publication_year, author |-> attrs.author,
         author_name |-> AuthorName(attrs.author)]

(* BookUpdateView.get_change_summary, called after the save with the saved
   instance: a field of the request is listed when str() of its value differs
   from str() of the instance's; str(instance.author) is the author's name *)
get_change_summary(instance, data) ==
    { f \in DOMAIN data :
        \/ f = "title" /\ data.title # updated_data(instance, data).title
        \/ f = "author" }

(* PUT and PATCH books/<pk>/update/ *)
BookUpdateView_update(cred, pk, data, partial) ==
    LET user == Authenticate(cred)
        R(status, body) == Response("BookUpdateView", IF partial THEN "PATCH" ELSE "PUT", user, pk, data, status, body)
    IN  IF ~BookUpdateView_permission(user)
        THEN /\ last' = R(permission_denied(user), DeniedBody(user))
             /\ Unchanged
        ELSE IF pk \notin BookIds
        THEN /\ last' = R(404, NotFoundBody)
             /\ Unchanged
        ELSE LET instance == BookById(pk)
                 errors == BookSerializer_errors(data, instance, partial)
             IN  IF DOMAIN errors # {}
                 THEN /\ last' = R(400, errors)
                      /\ Unchanged
                 ELSE /\ perform_update(instance, data)
                      /\ last' = R(200, [message |-> <<"Book", "updated", "successfully">>,
                                         book |-> updated_data(instance, data),
                                         changes |-> get_change_summary(instance, data)])

(* PUT and PATCH books-list/<pk>/ : RetrieveUpdateDestroyAPIView *)
BookDetailView_update(cred, pk, data, partial) ==
    LET user == Authenticate(cred)
        R(status, body) == Response("BookDetailView", IF partial THEN "PATCH" ELSE "PUT",
                                    user, pk, data, status, body)
    IN  IF ~BookDetailView_permission(user)
        THEN /\ last' = R(permission_denied(user), DeniedBody(user))
             /\ Unchanged
        ELSE IF pk \notin BookIds
        THEN /\ last' = R(404, NotFoundBody)
             /\ Unchanged
        ELSE LET instance == BookById(pk)
                 errors == BookSerializer_errors(data, instance, partial)
             IN  IF DOMAIN errors # {}
                 THEN /\ last' = R(400, errors)
                      /\ Unchanged
                 ELSE /\ perform_update(instance, data)
                      /\ last' = R(200, updated_data(instance, data))

(* a delete that filters on the author instead of the primary key *)
Book_delete_by_author(pk) ==
    /\ books' = { b \in books : b.author # BookById(pk).author }
    /\ UNCHANGED <<authors, next_author_id, next_book_id>>

(* perform_destroy(book): instance.delete() *)
Book_delete(pk) ==
    /\ books' = { b \in books : b.id # pk }
    /\ UNCHANGED <<authors, next_author_id, next_book_id>>

(* DELETE books/<pk>/delete/ *)
BookDeleteView_destroy(cred, pk) ==
    LET user == Authenticate(cred)
        R(status, body) == Response("BookDeleteView", "DELETE", user, pk, NoData, status, body)
    IN  IF ~BookDeleteView_permission(user)
        THEN /\ last' = R(permission_denied(user), DeniedBody(user))
             /\ Unchanged
        ELSE IF pk \notin BookIds
        THEN /\ last' = R(404, NotFoundBody)
             /\ Unchanged
        ELSE LET instance == BookById(pk)
                 book_title == instance.title
                 author_name == AuthorName(instance.author)
             IN  /\ Book_delete(pk)
                 /\ last' = R(200, [message |-> FString(
                        <<"Book", "{book_title}", "by", "{author_name}", "has", "been",
                          "successfully", "deleted", ".">>,
                        [book_title |-> book_title, author_name |-> author_name]),
                      deleted_book |-> [title |-> book_title, author |-> author_name,
                                        publication_year |-> instance.publication_year]])

(* DELETE books-list/<pk>/ : DestroyModelMixin.destroy, 204 without a body *)
BookDetailView_destroy(cred, pk) ==
    LET user == Authenticate(cred)
        R(status, body) == Response("BookDetailView", "DELETE", user, pk, NoData, status, body)
    IN  IF ~BookDetailView_permission(user)
        THEN /\ last' = R(permission_denied(user), DeniedBody(user))
             /\ Unchanged
        ELSE IF pk \notin BookIds
        THEN /\ last' = R(404, NotFoundBody)
             /\ Unchanged
        ELSE /\ Book_delete(pk)
             /\ last' = R(204, NoData)
----------------------------------------------------------------------------
(* Book views that read *)

(* A query parameter's value: the text of a number, or other text *)
Num(n) == [kind |-> "number", n |-> n]
Text == [kind |-> "text", n |-> 0]

(* str.isdigit *)
isdigit(v) == v.kind = "number" /\ v.n >= 0

BookPagination_max_page_size == 100

(* PageNumberPagination.get_page_size: page_size_query_param read by
   _positive_int(strict, cutoff=max_page_size); a missing, non-numeric or
   non-positive value leaves page_size *)
get_page_size(params) ==
    IF "page_size" \in DOMAIN params /\ isdigit(params.page_size) /\ params.page_size.n >= 1
    THEN Min(params.page_size.n, BookPagination_max_page_size)
    ELSE BookPagination_page_size

(* request.query_params.get('page', 1) *)
page_number(params) == IF "page" \in DOMAIN params THEN params.page ELSE Num(1)

(* Paginator.validate_number: TRUE when page() raises InvalidPage *)
InvalidPage(number, count, page_size) ==
    \/ ~isdigit(number)
    \/ number.n < 1
    \/ number.n > num_pages(count, page_size)

(* a page that ignores the page number *)
page_ignoring_number(seq, number, page_size) ==
    SubSeq(seq, 1, Min(page_size, Len(seq)))

(* Paginator.page(number).object_list *)
page(seq, number, page_size) ==
    SubSeq(seq, (number - 1) * page_size + 1, Min(number * page_size, Len(seq)))

(* BookPagination.get_paginated_response for page number of seq; the next
   and previous links are given by the page they lead to, 0 for None *)
get_paginated_response(seq, number, page_size) ==
    [count |-> Len(seq),
     total_pages |-> num_pages(Len(seq), page_size),
     current_page |-> number,
     page_size |-> page_size,
     next |-> IF number < num_pages(Len(seq), page_size) THEN number + 1 ELSE 0,
     previous |-> IF number > 1 THEN number - 1 ELSE 0,
     results |-> [i \in 1..Len(page(seq, number, page_size)) |->
                    BookSerializer_data(page(seq, number, page_size)[i])]]

(* data[key] = value on a response's data *)
With(data, key, value) ==
    [k \in DOMAIN data \cup {key} |-> IF k = key THEN value ELSE data[k]]

(* the query_metadata that BookListView.list adds: the parameter names it
   lists under each heading *)
query_metadata ==
    [filtering_options |->
        [exact_match |-> {"author", "publication_year"},
         range_filters |-> {"publication_year_min", "publication_year_max"},
         text_filters |-> {"title", "author_name"},
         multiple_value_filters |-> {"publication_years"},
         custom_filters |-> {"recent", "decade", "century"}],
     searching_options |-> {"search"},
     ordering_options |-> {"ordering"},
     pagination_options |-> {"page", "page_size"}]

(* related_books is the slice [:5] *)
RelatedLimit == 5

(* BookListView.ordering_fields, without the timestamps *)
BookListView_ordering_fields == {"title", "publication_year", "author__name"}

OrderingInputs ==
    {"", "title", "-title", "publication_year", "-publication_year", "author__name", "isbn"}

(* term.lstrip('-') *)
FieldOf(term) ==
    CASE term = "-title" -> "title"
      [] term = "-publication_year" -> "publication_year"
      [] term = "-author__name" -> "author__name"
      [] OTHER -> term

(* an ordering filter that ignores the request's parameter *)
BookListView_get_ordering_default_only(param) == "title"

(* OrderingFilter.get_ordering: the ordering parameter when it names one of
   ordering_fields, else the view's ordering = ['title'] *)
BookListView_get_ordering(param) ==
    IF param # "" /\ FieldOf(param) \in BookListView_ordering_fields
    THEN param
    ELSE "title"

(* str.lower *)
Lower(s) == [i \in 1..Len(s) |-> ToLower(s[i])]

(* the lookup contains: t is a substring of s *)
contains(s, t) ==
    \E i \in 0..(Len(s) - Len(t)) : SubSeq(s, i + 1, i + Len(t)) = t

(* a containment that minds letter case *)
icontains_case_sensitive(s, t) == contains(s, t)

(* the lookup icontains: contains, letter case ignored *)
icontains(s, t) == contains(Lower(s), Lower(t))

(* the lookup iexact *)
iexact(s, t) == Lower(s) = Lower(t)

(* BookListView.get_queryset as first defined: the decade and century
   filters.  The class body binds get_queryset a second time further down,
   so this definition is not the view's method. *)
BookListView_get_queryset_decade(params) ==
    { b \in books :
        /\ ("decade" \in DOMAIN params /\ isdigit(params.decade)) =>
               /\ b.publication_year >= params.decade.n
               /\ b.publication_year < params.decade.n + 10
        /\ ("century" \in DOMAIN params /\ isdigit(params.century)) =>
               /\ b.publication_year >= (params.century.n - 1) * 100 + 1
               /\ b.publication_year < (params.century.n - 1) * 100 + 1 + 100 }

(* filter(publication_year__gte=min_year) with text that is no number
   raises ValueError *)
BookListView_get_queryset_raises(params) ==
    \/ "min_year" \in DOMAIN params /\ params.min_year.kind # "number"
    \/ "max_year" \in DOMAIN params /\ params.max_year.kind # "number"

(* BookListView.get_queryset, the second definition: min_year and max_year *)
BookListView_get_queryset(params) ==
    { b \in books :
        /\ "min_year" \in DOMAIN params => b.publication_year >= params.min_year.n
        /\ "max_year" \in DOMAIN params => b.publication_year <= params.max_year.n }

(* BookFilter: the filters a request of the model may name (title,
   author_name, publication_years and recent are never sent) *)
BookFilter_filters ==
    {"author", "publication_year", "publication_year_min", "publication_year_max"}

(* BookFilter's form: the parameters whose value does not validate.  A
   NumberFilter needs a number, the author filter a stored author's id. *)
BookFilter_errors(params) ==
    { k \in DOMAIN params \cap BookFilter_filters :
        \/ params[k].kind # "number"
        \/ k = "author" /\ params[k].n \notin AuthorIds }

(* a filter whose upper bound excludes the bound itself *)
BookFilter_qs_max_exclusive(queryset, params) ==
    { b \in queryset :
        /\ "author" \in DOMAIN params => b.author = params.author.n
        /\ "publication_year" \in DOMAIN params => b.publication_year = params.publication_year.n
        /\ "publication_year_min" \in DOMAIN params =>
               b.publication_year >= params.publication_year_min.n
        /\ "publication_year_max" \in DOMAIN params =>
               b.publication_year < params.publication_year_max.n }

(* BookFilter.qs over queryset *)
BookFilter_qs(queryset, params) ==
    { b \in queryset :
        /\ "author" \in DOMAIN params => b.author = params.author.n
        /\ "publication_year" \in DOMAIN params => b.publication_year = params.publication_year.n
        /\ "publication_year_min" \in DOMAIN params =>
               b.publication_year >= params.publication_year_min.n
        /\ "publication_year_max" \in DOMAIN params =>
               b.publication_year <= params.publication_year_max.n }

(* the fields of model Book *)
Book_fields == {"id", "title", "publication_year", "author", "created_at", "updated_at"}

(* BookListView.search_fields, the second assignment *)
BookListView_search_fields == {"title", "author__name", "=isbn"}

(* SearchFilter.get_search_terms: the search parameter, if not empty *)
search_terms(params) ==
    IF "search" \in DOMAIN params /\ Strip(params.search) # <<>>
    THEN {Strip(params.search)}
    ELSE {}

(* SearchFilter.construct_search strips the prefix '=' and the queryset
   resolves the name against the model: Book has no field isbn, so filter()
   raises FieldError once there is a term to search for *)
SearchFilter_raises(params) ==
    /\ search_terms(params) # {}
    /\ "=isbn" \in BookListView_search_fields
    /\ "isbn" \notin Book_fields

(* SearchFilter.filter_queryset over the fields that resolve *)
SearchFilter_filter_queryset(queryset, params) ==
    { b \in queryset :
        \A term \in search_terms(params) :
            \/ "title" \in BookListView_search_fields /\ icontains(b.title, term)
            \/ "author__name" \in BookListView_search_fields
                   /\ icontains(AuthorName(b.author), term) }

(* GenericAPIView.filter_queryset(get_queryset()) up to the ordering *)
BookListView_filter_queryset(params) ==
    SearchFilter_filter_queryset(
        BookFilter_qs(BookListView_get_queryset(params), params), params)

(* the ordering parameter, '' when the request has none *)
ordering_param(params) ==
    IF "ordering" \in DOMAIN params THEN params.ordering ELSE ""

(* GET books-list/ : BookListView.list *)
BookListView_list(cred, params) ==
    LET user == Authenticate(cred)
        R(status, body) == Response("BookListView", "GET", user, 0, params, status, body)
        page_size == get_page_size(params)
        number == page_number(params)
    IN  /\ IF ~BookListView_permission(user)
           THEN last' = R(permission_denied(user), DeniedBody(user))
           ELSE IF BookListView_get_queryset_raises(params)
           THEN last' = R(500, NoData)
           ELSE IF BookFilter_errors(params) # {}
           THEN last' = R(400, [k \in BookFilter_errors(params) |-> <<"Enter", "a", "valid", "value.">>])
           ELSE IF SearchFilter_raises(params)
           THEN last' = R(500, NoData)
           ELSE \E seq \in order_by(BookListView_filter_queryset(params),
                                    BookListView_get_ordering(ordering_param(params))) :
                  IF InvalidPage(number, Len(seq), page_size)
                  THEN last' = R(404, [detail |-> <<"Invalid", "page.">>])
                  ELSE last' = R(200, With(get_paginated_response(seq, number.n, page_size),
                                           "query_metadata", query_metadata))
        /\ Unchanged

(* BookDetailView.retrieve *)
BookDetailView_retrieve(cred, pk) ==
    LET user == Authenticate(cred)
        R(status, body) == Response("BookDetailView", "GET", user, pk, NoData, status, body)
    IN  /\ IF ~BookDetailView_permission(user)
           THEN last' = R(permission_denied(user), DeniedBody(user))
           ELSE IF pk \notin BookIds
           THEN last' = R(404, NotFoundBody)
           ELSE LET instance == BookById(pk)
                    related == BooksOf(instance.author) \ {instance}
                IN  \E seq \in order_by(related, "title") :
                      last' = R(200, With(With(BookSerializer_data(instance),
                                        "related_books",
                                        [i \in 1..Len(first_page(seq, RelatedLimit)) |->
                                            BookSerializer_data(seq[i])]),
                                        "author_book_count",
                                        Cardinality(BooksOf(instance.author))))
        /\ Unchanged

(* BookAdvancedSearchView.get_queryset: the conjunction q_objects applied to
   all books; a parameter that is missing or empty adds no condition *)
BookAdvancedSearchView_get_queryset(params) ==
    { b \in books :
        /\ ("q" \in DOMAIN params /\ params.q # <<>>) =>
               IF "exact_title" \in DOMAIN params
               THEN iexact(b.title, params.q)
               ELSE \/ icontains(b.title, params.q)
                    \/ icontains(AuthorName(b.author), params.q)
        /\ ("author" \in DOMAIN params /\ params.author # <<>>) =>
               icontains(AuthorName(b.author), params.author)
        /\ "year_min" \in DOMAIN params => b.publication_year >= params.year_min.n
        /\ "year_max" \in DOMAIN params => b.publication_year <= params.year_max.n }

(* api/urls.py urlpatterns: the views a path routes to *)
urlpatterns ==
    { "AuthorListView", "AuthorDetailView", "BookListView", "BookDetailView",
      "BookCreateView", "BookUpdateView", "BookDeleteView", "AuthorCreateView",
      "AuthorUpdateView", "AuthorDeleteView", "BookSearchView", "RecentBooksView" }

(* GET on the advanced-search endpoint without parameters: no path of
   urlpatterns routes to BookAdvancedSearchView, so the URL resolver answers
   404; were it routed, Q() would filter nothing *)
BookAdvancedSearchView_list(cred) ==
    LET user == Authenticate(cred)
        R(status, body) == Response("BookAdvancedSearchView", "GET", user, 0, NoData, status, body)
    IN  /\ IF "BookAdvancedSearchView" \notin urlpatterns
           THEN last' = R(404, NoData)
           ELSE IF ~BookAdvancedSearchView_permission(user)
           THEN last' = R(permission_denied(user), DeniedBody(user))
           ELSE \E seq \in order_by(BookAdvancedSearchView_get_queryset(NoData), "title") :
                  last' = R(200, get_paginated_response(seq, 1, BookPagination_page_size))
        /\ Unchanged

RecentYears == 20

(* RecentBooksView.get_queryset without parameters *)
RecentBooksView_get_queryset ==
    { b \in books : b.publication_year >= current_year - RecentYears }

(* GET books/recent/ : ordering = ['-publication_year'] *)
RecentBooksView_list(cred) ==
    LET user == Authenticate(cred)
        R(status, body) == Response("RecentBooksView", "GET", user, 0, NoData, status, body)
    IN  /\ IF ~RecentBooksView_permission(user)
           THEN last' = R(permission_denied(user), DeniedBody(user))
           ELSE \E seq \in order_by(RecentBooksView_get_queryset, "-publication_year") :
                  last' = R(200, get_paginated_response(seq, 1, BookPagination_page_size))
        /\ Unchanged

----------------------------------------------------------------------------
(* The specification *)

NoResponse == Response("none", "none", Anonymous, 0, NoData, 0, NoData)

(* The client: it sends a request when it holds no response, or sends the
   request it was just answered once more, possibly with other credentials *)
MaySend(view, method, pk, data) ==
    \/ last.view = "none"
    \/ /\ last.view = view
       /\ last.method = method
       /\ last.pk = pk
       /\ last.data = data

(* the client takes the response *)
Receive ==
    /\ last.view # "none"
    /\ last' = NoResponse
    /\ Unchanged
    /\ LibraryUnchanged

Method(partial) == IF partial THEN "PATCH" ELSE "PUT"

Next ==
    \/ \E cred \in Credentials, data \in AuthorDataInputs :
          MaySend("AuthorCreateView", "POST", 0, data) /\ AuthorCreateView_create(cred, data) /\ LibraryUnchanged
    \/ \E cred \in Credentials, pk \in AuthorIdInputs, data \in AuthorDataInputs :
          MaySend("AuthorUpdateView", "PUT", pk, data) /\ AuthorUpdateView_update(cred, pk, data) /\ LibraryUnchanged
    \/ \E cred \in Credentials, pk \in AuthorIdInputs :
          MaySend("AuthorDeleteView", "DELETE", pk, NoData) /\ AuthorDeleteView_destroy(cred, pk) /\ LibraryUnchanged
    \/ \E cred \in Credentials :
          MaySend("AuthorListView", "GET", 0, NoData) /\ AuthorListView_list(cred) /\ LibraryUnchanged
    \/ \E cred \in Credentials, pk \in AuthorIdInputs :
          MaySend("AuthorDetailView", "GET", pk, NoData) /\ AuthorDetailView_retrieve(cred, pk) /\ LibraryUnchanged
    \/ \E cred \in Credentials, data \in BookDataInputs :
          MaySend("BookCreateView", "POST", 0, data) /\ BookCreateView_create(cred, data) /\ LibraryUnchanged
    \/ \E cred \in Credentials, data \in BookDataInputs :
          MaySend("BookListView", "POST", 0, data) /\ BookListView_create(cred, data) /\ LibraryUnchanged
    \/ \E cred \in Credentials, pk \in BookIdInputs, data \in BookDataInputs, partial \in BOOLEAN :
          MaySend("BookUpdateView", Method(partial), pk, data)
              /\ BookUpdateView_update(cred, pk, data, partial) /\ LibraryUnchanged
    \/ \E cred \in Credentials, pk \in BookIdInputs, data \in BookDataInputs, partial \in BOOLEAN :
          MaySend("BookDetailView", Method(partial), pk, data)
              /\ BookDetailView_update(cred, pk, data, partial) /\ LibraryUnchanged
    \/ \E data \in FullBookData :
          MaySend("Book.save", "create", 0, data) /\ Book_objects_create(data) /\ LibraryUnchanged
    \/ \E pk \in BookIdInputs, data \in FullBookData :
          MaySend("Book.save", "update", pk, data) /\ Book_instance_save(pk, data) /\ LibraryUnchanged
    \/ \E cred \in Credentials, pk \in BookIdInputs :
          MaySend("BookDeleteView", "DELETE", pk, NoData) /\ BookDeleteView_destroy(cred, pk) /\ LibraryUnchanged
    \/ \E cred \in Credentials, pk \in BookIdInputs :
          MaySend("BookDetailView", "DELETE", pk, NoData) /\ BookDetailView_destroy(cred, pk) /\ LibraryUnchanged
    \/ \E cred \in Credentials, ordering \in OrderingInputs :
          MaySend("BookListView", "GET", 0, [ordering |-> ordering])
              /\ BookListView_list(cred, [ordering |-> ordering]) /\ LibraryUnchanged
    \/ \E cred \in Credentials, pk \in BookIdInputs :
          MaySend("BookDetailView", "GET", pk, NoData) /\ BookDetailView_retrieve(cred, pk) /\ LibraryUnchanged
    \/ \E cred \in Credentials :
          MaySend("BookAdvancedSearchView", "GET", 0, NoData) /\ BookAdvancedSearchView_list(cred) /\ LibraryUnchanged
    \/ \E cred \in Credentials :
          MaySend("RecentBooksView", "GET", 0, NoData) /\ RecentBooksView_list(cred) /\ LibraryUnchanged
    \/ Receive

Spec == Init /\ [][Next]_vars

TypeOK ==
    /\ next_author_id \in 1..(MaxAuthors + 1)
    /\ next_book_id \in 1..(MaxBooks + 1)
    /\ \A b \in books : b.author \in AuthorIds
----------------------------------------------------------------------------
(* The read-only views over a store of books: QuerySpec starts from a store
   that creates through the serializers can have left and sends queries *)

MaxQueryBooks == 3

QueryAuthors ==
    { [id |-> 1, name |-> <<UpperA>>], [id |-> 2, name |-> <<UpperZ, LowerA>>] }
QueryTitles == { <<LowerA>>, <<UpperA, LowerZ>> }
QueryYears == { 1990, 2000, 2001 }

(* the stores of n books with ids 1..n, distinct in (title, author) *)
QueryStores(n) ==
    { { [id |-> i, title |-> f[i][1], publication_year |-> f[i][2], author |-> f[i][3]] :
          i \in 1..n } :
        f \in { g \in [1..n -> QueryTitles \X QueryYears \X {1, 2}] :
                  \A i, j \in 1..n :
                      i # j => <<g[i][1], g[i][3]>> # <<g[j][1], g[j][3]>> } }

QueryInit ==
    /\ authors = QueryAuthors
    /\ \E n \in 0..MaxQueryBooks :
          /\ books \in QueryStores(n)
          /\ next_book_id = n + 1
    /\ next_author_id = 3
    /\ last = NoResponse
    /\ LibraryInit

(* a parameter the request does not carry *)
Absent == [kind |-> "absent", n |-> 0]

(* the query string that carries the parameters of choice that are given *)
Query(choice) ==
    [k \in { j \in DOMAIN choice : choice[j] # Absent } |-> choice[k]]

PageQueries ==
    { Query(c) : c \in [page : {Absent, Num(1), Num(2), Num(3)},
                        page_size : {Absent, Num(1), Num(2), Num(101)},
                        publication_year_min : {Absent, Num(2000)}] }

RangeQueries ==
    { Query(c) : c \in [publication_year_min : {Absent, Num(1990), Num(2000), Num(2001)},
                        publication_year_max : {Absent, Num(1990), Num(2000), Num(2001)}] }
    \cup { [min_year |-> Num(2000)], [max_year |-> Num(2000)] }

SearchInputs == { <<LowerA>>, <<LowerZ>>, <<UpperZ, UpperA>> }

CombinedQueries ==
    { With(With(Query(c), "search", term), "ordering", o) :
        c \in [author : {Absent, Num(1), Num(2)}],
        term \in SearchInputs,
        o \in {"title", "-publication_year"} }

InvalidQueries ==
    { [invalid_param |-> Text], [publication_year_min |-> Text], [author |-> Num(3)] }

DecadeQueries ==
    { Query(c) : c \in [decade : {Absent, Num(1990), Num(1991), Text},
                        century : {Absent, Num(20), Num(21), Text}] }

ListQueries ==
    PageQueries \cup RangeQueries \cup CombinedQueries \cup InvalidQueries \cup DecadeQueries

(* data with the text parameter key, which a request carries when it has a
   value to give *)
WithGiven(data, key, value) ==
    IF value = <<>> THEN data ELSE With(data, key, value)

AdvancedSearchQueries ==
    { WithGiven(WithGiven(Query(c), "q", term), "author", name) :
        c \in [year_min : {Absent, Num(2000)}, year_max : {Absent, Num(2000)}],
        term \in SearchInputs \cup {<<>>},
        name \in {<<>>, <<LowerA>>, <<UpperZ>>} }
    \cup { [q |-> <<>>], [q |-> <<LowerA>>, exact_title |-> "true"] }

(* get_queryset called on a BookAdvancedSearchView that serves a request
   with these parameters; default ordering Meta.ordering = ['title'] *)
BookAdvancedSearchView_filter(params) ==
    /\ \E seq \in order_by(BookAdvancedSearchView_get_queryset(params), "title") :
          last' = Response("BookAdvancedSearchView.get_queryset", "call", Anonymous, 0,
                           params, 0, [results |-> seq])
    /\ Unchanged

QueryCredentials == { "none" }

QueryNext ==
    \/ \E cred \in QueryCredentials, params \in ListQueries :
          MaySend("BookListView", "GET", 0, params) /\ BookListView_list(cred, params) /\ LibraryUnchanged
    \/ \E params \in AdvancedSearchQueries :
          MaySend("BookAdvancedSearchView.get_queryset", "call", 0, params)
              /\ BookAdvancedSearchView_filter(params) /\ LibraryUnchanged
    \/ Receive

QuerySpec == QueryInit /\ [][QueryNext]_vars

(***************************************************************************)
(* LibraryProject, relationship_app: users, their UserProfile rows kept by *)
(* the two post_save receivers, and the three role-guarded views.          *)
(*                                                                         *)
(* A user is named by its email.  customusers holds the user rows,         *)
(* userprofiles the UserProfile rows [id, user, role].  held[e] is the     *)
(* reverse one-to-one cache of the instance of user e that a process       *)
(* holds: Unheld while the instance has not read its userprofile, else the *)
(* role of the profile object it cached.  Each view builds request.user    *)
(* anew, so a view reads the role from the table.                          *)
(***************************************************************************)

ROLE_CHOICES == { "Admin", "Librarian", "Member" }

UserProfile_role_default == "Member"

(* the profile rows of a user *)
ProfilesOf(user, profiles) == { p \in profiles : p.user = user }

(* hasattr(user, 'userprofile'): no such attribute on AnonymousUser, and
   RelatedObjectDoesNotExist, an AttributeError, for a user with no row *)
hasattr_userprofile(user, profiles) ==
    /\ user # Anonymous
    /\ ProfilesOf(user, profiles) # {}

(* user.userprofile.role read from the table *)
userprofile_role(user, profiles) ==
    (CHOOSE p \in ProfilesOf(user, profiles) : TRUE).role

(* receiver of post_save: a profile for the user that was just inserted *)
create_user_profile(instance, created, profiles) ==
    IF created
    THEN profiles \cup { [id |-> Cardinality(profiles) + 1,
                          user |-> instance,
                          role |-> UserProfile_role_default] }
    ELSE profiles

(* receiver of post_save: instance.userprofile.save() writes every field of
   the profile object the instance holds, read from the table only when the
   instance holds none *)
save_user_profile(instance, cache, profiles) ==
    LET role == IF cache = Unheld THEN userprofile_role(instance, profiles) ELSE cache
    IN  { IF p.user = instance THEN [p EXCEPT !.role = role] ELSE p : p \in profiles }

(* the role the instance holds once save_user_profile has run *)
held_after_save(instance, cache, profiles) ==
    IF cache = Unheld THEN userprofile_role(instance, profiles) ELSE cache

is_admin(user, profiles) ==
    hasattr_userprofile(user, profiles) /\ userprofile_role(user, profiles) = "Admin"

is_librarian(user, profiles) ==
    hasattr_userprofile(user, profiles) /\ userprofile_role(user, profiles) = "Librarian"

(* a variant of is_member that looks only for the profile *)
is_member_any_role(user, profiles) ==
    hasattr_userprofile(user, profiles)

is_member(user, profiles) ==
    hasattr_userprofile(user, profiles) /\ userprofile_role(user, profiles) = "Member"

(* the tables the relationship_app actions leave alone *)
BookshelfUnchanged ==
    /\ UNCHANGED <<user_permissions, posts, comments, next_post_id, next_comment_id>>
    /\ InFlightUnchanged

(* CustomUser.objects.create_user / create_superuser: the insert, then both
   receivers; the OneToOneField assignment in create leaves the new profile
   in the instance's cache *)
User_create(email, is_superuser) ==
    /\ \A u \in customusers : u.email # email
    /\ customusers' = customusers \cup { [email |-> email, is_superuser |-> is_superuser] }
    /\ LET created == create_user_profile(email, TRUE, userprofiles)
       IN  /\ userprofiles' = save_user_profile(email, UserProfile_role_default, created)
           /\ held' = [held EXCEPT ![email] = UserProfile_role_default]
    /\ last' = Response("User.save", "create", email, 0, NoData, 0, NoData)
    /\ Unchanged
    /\ BookshelfUnchanged

(* user.save() on the held instance of an existing user: both receivers run
   with created = False *)
User_save(email) ==
    /\ \E u \in customusers : u.email = email
    /\ LET kept == create_user_profile(email, FALSE, userprofiles)
       IN  /\ userprofiles' = save_user_profile(email, held[email], kept)
           /\ held' = [held EXCEPT ![email] = held_after_save(email, held[email], kept)]
    /\ last' = Response("User.save", "update", email, 0, NoData, 0, NoData)
    /\ UNCHANGED customusers
    /\ Unchanged
    /\ BookshelfUnchanged

(* CustomUser.objects.get(email=...): a new instance, nothing cached *)
User_get(email) ==
    /\ \E u \in customusers : u.email = email
    /\ held[email] # Unheld
    /\ held' = [held EXCEPT ![email] = Unheld]
    /\ last' = Response("User.get", "get", email, 0, NoData, 0, NoData)
    /\ UNCHANGED <<customusers, userprofiles>>
    /\ Unchanged
    /\ BookshelfUnchanged

(* a UserProfile row, fetched on its own, is given another of its role
   choices and saved; the instances of the user do not see it *)
UserProfile_set_role(email, role) ==
    /\ ProfilesOf(email, userprofiles) # {}
    /\ userprofile_role(email, userprofiles) # role
    /\ userprofiles' = { IF p.user = email THEN [p EXCEPT !.role = role] ELSE p
                         : p \in userprofiles }
    /\ last' = Response("UserProfile.save", "update", email, 0, [role |-> role], 0, NoData)
    /\ UNCHANGED <<customusers, held>>
    /\ Unchanged
    /\ BookshelfUnchanged

(* user_passes_test(test_func): the view for a user that passes, else a
   redirect to the login page *)
user_passes_test(passes, view, template, requester) ==
    /\ last' = Response(view, "GET", requester, 0, NoData,
                        IF passes THEN 200 ELSE 302,
                        IF passes THEN [template |-> template]
                                  ELSE [location |-> "login"])
    /\ UNCHANGED <<customusers, userprofiles, held>>
    /\ Unchanged
    /\ BookshelfUnchanged

admin_view(requester) ==
    user_passes_test(is_admin(requester, userprofiles),
                     "admin_view", "relationship_app/admin_view.html", requester)

librarian_view(requester) ==
    user_passes_test(is_librarian(requester, userprofiles),
                     "librarian_view", "relationship_app/librarian_view.html", requester)

member_view(requester) ==
    user_passes_test(is_member(requester, userprofiles),
                     "member_view", "relationship_app/member_view.html", requester)

(* who can send a request: a user that exists, or nobody logged in *)
Requesters == { u.email : u \in customusers } \cup { Anonymous }

RbacNext ==
    \/ \E email \in Emails, su \in BOOLEAN :
          MaySend("User.save", "create", 0, NoData) /\ User_create(email, su)
    \/ \E email \in Emails :
          MaySend("User.save", "update", 0, NoData) /\ User_save(email)
    \/ \E email \in Emails :
          MaySend("User.get", "get", 0, NoData) /\ User_get(email)
    \/ \E email \in Emails, role \in ROLE_CHOICES :
          MaySend("UserProfile.save", "update", 0, [role |-> role])
              /\ UserProfile_set_role(email, role)
    \/ \E requester \in Requesters :
          MaySend("admin_view", "GET", 0, NoData) /\ admin_view(requester)
    \/ \E requester \in Requesters :
          MaySend("librarian_view", "GET", 0, NoData) /\ librarian_view(requester)
    \/ \E requester \in Requesters :
          MaySend("member_view", "GET", 0, NoData) /\ member_view(requester)
    \/ Receive

RbacSpec == Init /\ [][RbacNext]_vars

(***************************************************************************)
(* LibraryProject, bookshelf: Post and Comment behind login_required and   *)
(* permission_required.                                                    *)
(*                                                                         *)
(* user_permissions[e] is the set of permissions user e holds, given and   *)
(* taken away in the admin.  posts holds rows [id, author, title,          *)
(* content], comments rows [id, post, author, content]; ids come from      *)
(* next_post_id and next_comment_id and are never used twice.  Every user  *)
(* is active.  Text is one of a few sample strings.                        *)
(***************************************************************************)

MaxPosts == 1

MaxComments == 1

MaxGrants == 1

Post_permissions ==
    { "bookshelf.can_view_post", "bookshelf.can_create_post",
      "bookshelf.can_edit_post", "bookshelf.can_delete_post" }

Comment_permissions ==
    { "bookshelf.can_view_comment", "bookshelf.can_create_comment",
      "bookshelf.can_edit_comment", "bookshelf.can_delete_comment" }

(* the permissions the six views ask for *)
ViewPermissions ==
    (Post_permissions \cup Comment_permissions)
        \ { "bookshelf.can_view_post", "bookshelf.can_view_comment" }

(* user.has_perm(perm) of an active user: a superuser has every permission *)
has_perm(user, perm) ==
    \E u \in customusers :
        /\ u.email = user
        /\ u.is_superuser \/ perm \in user_permissions[user]

(* a variant of the predicate that lets only the author through *)
user_can_edit_post_author_only(post, user) ==
    user = post.author

user_can_edit_post(post, user) ==
    user = post.author \/ has_perm(user, "bookshelf.can_edit_post")

user_can_delete_post(post, user) ==
    user = post.author \/ has_perm(user, "bookshelf.can_delete_post")

user_can_edit_comment(comment, user) ==
    user = comment.author \/ has_perm(user, "bookshelf.can_edit_comment")

user_can_delete_comment(comment, user) ==
    user = comment.author \/ has_perm(user, "bookshelf.can_delete_comment")

(* str.strip() on the sample strings *)
strip(s) == IF s = " " THEN "" ELSE s

(* django.utils.html.escape on the sample strings *)
escape(s) == IF s = "<b>" THEN "&lt;b&gt;" ELSE s

(* PostForm.is_valid(): clean_title and clean_content want text that is not
   blank *)
PostForm_is_valid(data) ==
    strip(data.title) # "" /\ strip(data.content) # ""

(* the cleaned_data of a valid PostForm *)
PostForm_cleaned_data(data) ==
    [title |-> escape(strip(data.title)), content |-> escape(strip(data.content))]

(* CommentForm.is_valid(): clean_content wants two characters or more *)
CommentForm_is_valid(data) ==
    strip(data.content) # "" /\ Len(strip(data.content)) >= 2

CommentForm_cleaned_data(data) ==
    [content |-> escape(strip(data.content))]

(* the answers of the decorators and of the views *)
LoginRedirect == [location |-> "login"]

PermissionDenied == [detail |-> "PermissionDenied"]

Http404 == [detail |-> "Http404"]

HttpResponseForbidden(content) == [content |-> content]

PostListRedirect == [location |-> "bookshelf:post_list"]

(* the tables a bookshelf view cannot touch *)
AccountsUnchanged ==
    /\ UNCHANGED <<customusers, userprofiles, held, user_permissions>>
    /\ Unchanged
    /\ InFlightUnchanged

(* a view answers and writes nothing *)
Answer(view, method, requester, pk, data, status, body) ==
    /\ last' = Response(view, method, requester, pk, data, status, body)
    /\ UNCHANGED <<posts, comments, next_post_id, next_comment_id>>

(* the admin's user form gives a user a permission *)
CustomUserAdmin_grant(email, perm) ==
    /\ \E u \in customusers : u.email = email
    /\ perm \notin user_permissions[email]
    /\ Cardinality({ <<e, p>> \in Emails \X ViewPermissions : p \in user_permissions[e] })
           < MaxGrants
    /\ user_permissions' = [user_permissions EXCEPT ![email] = @ \cup { perm }]
    /\ last' = Response("CustomUserAdmin", "grant", email, 0, [perm |-> perm], 0, NoData)
    /\ UNCHANGED <<customusers, userprofiles, held, posts, comments,
                   next_post_id, next_comment_id>>
    /\ Unchanged
    /\ InFlightUnchanged

(* the admin's user form takes a permission away *)
CustomUserAdmin_revoke(email, perm) ==
    /\ perm \in user_permissions[email]
    /\ user_permissions' = [user_permissions EXCEPT ![email] = @ \ { perm }]
    /\ last' = Response("CustomUserAdmin", "revoke", email, 0, [perm |-> perm], 0, NoData)
    /\ UNCHANGED <<customusers, userprofiles, held, posts, comments,
                   next_post_id, next_comment_id>>
    /\ Unchanged
    /\ InFlightUnchanged

post_create(requester, method, data) ==
    /\ AccountsUnchanged
    /\ IF requester = Anonymous
       THEN Answer("post_create", method, requester, 0, data, 302, LoginRedirect)
       ELSE IF ~has_perm(requester, "bookshelf.can_create_post")
       THEN Answer("post_create", method, requester, 0, data, 403, PermissionDenied)
       ELSE IF method = "POST" /\ PostForm_is_valid(data)
       THEN /\ next_post_id <= MaxPosts
            /\ posts' = posts \cup
                   { [id |-> next_post_id, author |-> requester,
                      title |-> PostForm_cleaned_data(data).title,
                      content |-> PostForm_cleaned_data(data).content] }
            /\ next_post_id' = next_post_id + 1
            /\ last' = Response("post_create", method, requester, 0, data, 302,
                                PostListRedirect)
            /\ UNCHANGED <<comments, next_comment_id>>
       ELSE Answer("post_create", method, requester, 0, data, 200,
                   [template |-> "bookshelf/post_form.html"])

post_edit(requester, pk, method, data) ==
    LET found == { p \in posts : p.id = pk }
        post == CHOOSE p \in found : TRUE
    IN  /\ AccountsUnchanged
        /\ IF requester = Anonymous
           THEN Answer("post_edit", method, requester, pk, data, 302, LoginRedirect)
           ELSE IF ~has_perm(requester, "bookshelf.can_edit_post")
           THEN Answer("post_edit", method, requester, pk, data, 403, PermissionDenied)
           ELSE IF found = {}
           THEN Answer("post_edit", method, requester, pk, data, 404, Http404)
           ELSE IF ~user_can_edit_post(post, requester)
           THEN Answer("post_edit", method, requester, pk, data, 403,
                       HttpResponseForbidden("You don't have permission to edit this post."))
           ELSE IF method = "POST" /\ PostForm_is_valid(data)
           THEN /\ posts' = (posts \ { post }) \cup
                       { [post EXCEPT !.title = PostForm_cleaned_data(data).title,
                                      !.content = PostForm_cleaned_data(data).content] }
                /\ last' = Response("post_edit", method, requester, pk, data, 302,
                                    PostListRedirect)
                /\ UNCHANGED <<comments, next_post_id, next_comment_id>>
           ELSE Answer("post_edit", method, requester, pk, data, 200,
                       [template |-> "bookshelf/post_form.html"])

(* post.delete() takes the post's comments with it (on_delete=CASCADE) *)
post_delete(requester, pk, method) ==
    LET found == { p \in posts : p.id = pk }
        post == CHOOSE p \in found : TRUE
    IN  /\ AccountsUnchanged
        /\ IF requester = Anonymous
           THEN Answer("post_delete", method, requester, pk, NoData, 302, LoginRedirect)
           ELSE IF ~has_perm(requester, "bookshelf.can_delete_post")
           THEN Answer("post_delete", method, requester, pk, NoData, 403, PermissionDenied)
           ELSE IF found = {}
           THEN Answer("post_delete", method, requester, pk, NoData, 404, Http404)
           ELSE IF ~user_can_delete_post(post, requester)
           THEN Answer("post_delete", method, requester, pk, NoData, 403,
                       HttpResponseForbidden("You don't have permission to delete this post."))
           ELSE IF method = "POST"
           THEN /\ posts' = posts \ { post }
                /\ comments' = { c \in comments : c.post # post.id }
                /\ last' = Response("post_delete", method, requester, pk, NoData, 302,
                                    PostListRedirect)
                /\ UNCHANGED <<next_post_id, next_comment_id>>
           ELSE Answer("post_delete", method, requester, pk, NoData, 200,
                       [template |-> "bookshelf/post_confirm_delete.html"])

comment_create(requester, post_pk, method, data) ==
    LET found == { p \in posts : p.id = post_pk }
        post == CHOOSE p \in found : TRUE
    IN  /\ AccountsUnchanged
        /\ IF requester = Anonymous
           THEN Answer("comment_create", method, requester, post_pk, data, 302, LoginRedirect)
           ELSE IF ~has_perm(requester, "bookshelf.can_create_comment")
           THEN Answer("comment_create", method, requester, post_pk, data, 403,
                       PermissionDenied)
           ELSE IF found = {}
           THEN Answer("comment_create", method, requester, post_pk, data, 404, Http404)
           ELSE IF method = "POST" /\ CommentForm_is_valid(data)
           THEN /\ next_comment_id <= MaxComments
                /\ comments' = comments \cup
                       { [id |-> next_comment_id, post |-> post.id, author |-> requester,
                          content |-> CommentForm_cleaned_data(data).content] }
                /\ next_comment_id' = next_comment_id + 1
                /\ last' = Response("comment_create", method, requester, post_pk, data, 302,
                                    PostListRedirect)
                /\ UNCHANGED <<posts, next_post_id>>
           ELSE Answer("comment_create", method, requester, post_pk, data, 200,
                       [template |-> "bookshelf/comment_form.html"])

comment_edit(requester, pk, method, data) ==
    LET found == { c \in comments : c.id = pk }
        comment == CHOOSE c \in found : TRUE
    IN  /\ AccountsUnchanged
        /\ IF requester = Anonymous
           THEN Answer("comment_edit", method, requester, pk, data, 302, LoginRedirect)
           ELSE IF ~has_perm(requester, "bookshelf.can_edit_comment")
           THEN Answer("comment_edit", method, requester, pk, data, 403, PermissionDenied)
           ELSE IF found = {}
           THEN Answer("comment_edit", method, requester, pk, data, 404, Http404)
           ELSE IF ~user_can_edit_comment(comment, requester)
           THEN Answer("comment_edit", method, requester, pk, data, 403,
                       HttpResponseForbidden("You don't have permission to edit this comment."))
           ELSE IF method = "POST" /\ CommentForm_is_valid(data)
           THEN /\ comments' = (comments \ { comment }) \cup
                       { [comment EXCEPT !.content = CommentForm_cleaned_data(data).content] }
                /\ last' = Response("comment_edit", method, requester, pk, data, 302,
                                    PostListRedirect)
                /\ UNCHANGED <<posts, next_post_id, next_comment_id>>
           ELSE Answer("comment_edit", method, requester, pk, data, 200,
                       [template |-> "bookshelf/comment_form.html"])

comment_delete(requester, pk, method) ==
    LET found == { c \in comments : c.id = pk }
        comment == CHOOSE c \in found : TRUE
    IN  /\ AccountsUnchanged
        /\ IF requester = Anonymous
           THEN Answer("comment_delete", method, requester, pk, NoData, 302, LoginRedirect)
           ELSE IF ~has_perm(requester, "bookshelf.can_delete_comment")
           THEN Answer("comment_delete", method, requester, pk, NoData, 403, PermissionDenied)
           ELSE IF found = {}
           THEN Answer("comment_delete", method, requester, pk, NoData, 404, Http404)
           ELSE IF ~user_can_delete_comment(comment, requester)
           THEN Answer("comment_delete", method, requester, pk, NoData, 403,
                       HttpResponseForbidden("You don't have permission to delete this comment."))
           ELSE IF method = "POST"
           THEN /\ comments' = comments \ { comment }
                /\ last' = Response("comment_delete", method, requester, pk, NoData, 302,
                                    PostListRedirect)
                /\ UNCHANGED <<posts, next_post_id, next_comment_id>>
           ELSE Answer("comment_delete", method, requester, pk, NoData, 200,
                       [template |-> "bookshelf/comment_confirm_delete.html"])

(* what is sent: the primary keys that can exist and one that cannot, a GET
   or a POST, and form data with blank, plain and marked-up text *)
PostIdInputs == 1..(MaxPosts + 1)

CommentIdInputs == 1..(MaxComments + 1)

Methods == { "GET", "POST" }

PostDataInputs ==
    { [title |-> " ", content |-> "old"],
      [title |-> "t", content |-> "old"],
      [title |-> "t", content |-> "<b>"] }

CommentDataInputs ==
    { [content |-> "c"], [content |-> "old"], [content |-> "<b>"] }

(* a GET carries no form data *)
Sent(method, data) == IF method = "GET" THEN NoData ELSE data

PostNext ==
    \/ \E email \in Emails, su \in BOOLEAN :
          MaySend("User.save", "create", 0, NoData) /\ User_create(email, su)
    \/ \E email \in Emails, perm \in ViewPermissions :
          MaySend("CustomUserAdmin", "grant", 0, [perm |-> perm])
              /\ CustomUserAdmin_grant(email, perm)
    \/ \E email \in Emails, perm \in ViewPermissions :
          MaySend("CustomUserAdmin", "revoke", 0, [perm |-> perm])
              /\ CustomUserAdmin_revoke(email, perm)
    \/ \E requester \in Requesters, method \in Methods, data \in PostDataInputs :
          MaySend("post_create", method, 0, Sent(method, data))
              /\ post_create(requester, method, Sent(method, data))
    \/ \E requester \in Requesters, pk \in PostIdInputs, method \in Methods,
          data \in PostDataInputs :
          MaySend("post_edit", method, pk, Sent(method, data))
              /\ post_edit(requester, pk, method, Sent(method, data))
    \/ \E requester \in Requesters, pk \in PostIdInputs, method \in Methods :
          MaySend("post_delete", method, pk, NoData) /\ post_delete(requester, pk, method)
    \/ \E requester \in Requesters, pk \in PostIdInputs, method \in Methods,
          data \in CommentDataInputs :
          MaySend("comment_create", method, pk, Sent(method, data))
              /\ comment_create(requester, pk, method, Sent(method, data))
    \/ \E requester \in Requesters, pk \in CommentIdInputs, method \in Methods,
          data \in CommentDataInputs :
          MaySend("comment_edit", method, pk, Sent(method, data))
              /\ comment_edit(requester, pk, method, Sent(method, data))
    \/ \E requester \in Requesters, pk \in CommentIdInputs, method \in Methods :
          MaySend("comment_delete", method, pk, NoData)
              /\ comment_delete(requester, pk, method)
    \/ Receive

PostSpec == Init /\ [][PostNext]_vars

(***************************************************************************)
(* advanced-api-project under concurrent requests.                         *)
(*                                                                         *)
(* A request is served by its own worker and each ORM call is a statement  *)
(* of its own: no view opens a transaction and none locks a row.  So       *)
(* AuthorDeleteView.destroy is three steps (get_object, instance.books     *)
(* .count(), perform_destroy) and BookCreateView.create two (is_valid,     *)
(* perform_create), and the steps of different requests interleave.        *)
(* instance.delete() runs in the collector's transaction: the books of the *)
(* author and the author go in one step.  Book.save in perform_create runs *)
(* full_clean again, and the foreign key constraint of the table refuses   *)
(* what full_clean would miss, so a book for an author that is gone is not *)
(* written and the request fails.                                          *)
(***************************************************************************)

(* the authors the requests are about: they were created before *)
RaceAuthors ==
    { [id |-> 1, name |-> <<UpperA>>], [id |-> 2, name |-> <<UpperZ, LowerA>>] }

RaceInit ==
    /\ authors = RaceAuthors
    /\ books = {}
    /\ next_author_id = 3
    /\ next_book_id = 1
    /\ last = NoResponse
    /\ LibraryInit

(* the steps below leave the library alone *)
RaceLibraryUnchanged ==
    UNCHANGED <<customusers, userprofiles, held, user_permissions, posts, comments,
                next_post_id, next_comment_id>>

(* destroy, first statement: permission check and self.get_object() *)
AuthorDeleteView_get_object(cred, pk) ==
    LET user == Authenticate(cred)
        R(status, body) == Response("AuthorDeleteView", "DELETE", user, pk, NoData, status, body)
    IN  /\ destroying.pc = "idle"
        /\ IF ~AuthorDeleteView_permission(user)
           THEN /\ last' = R(permission_denied(user), DeniedBody(user))
                /\ UNCHANGED destroying
           ELSE IF pk \notin AuthorIds
           THEN /\ last' = R(404, NotFoundBody)
                /\ UNCHANGED destroying
           ELSE /\ destroying' = [pc |-> "get_object", user |-> user, pk |-> pk,
                                  instance |-> AuthorById(pk)]
                /\ UNCHANGED last
        /\ Unchanged
        /\ UNCHANGED creating
        /\ RaceLibraryUnchanged

(* destroy, second statement: book_count = instance.books.count() and the
   guard on it *)
AuthorDeleteView_count ==
    LET pk == destroying.pk
        instance == destroying.instance
        book_count == Cardinality(BooksOf(pk))
        R(status, body) == Response("AuthorDeleteView", "DELETE", destroying.user, pk,
                                    NoData, status, body)
    IN  /\ destroying.pc = "get_object"
        /\ IF AuthorDeleteView_refuses(book_count)
           THEN /\ last' = R(400, [error |-> FString(
                      <<"Cannot", "delete", "author", "{instance.name}", "because",
                        "they", "have", "{book_count}", "book(s)", "associated.",
                        "Please", "delete", "or", "reassign", "the", "books", "first.">>,
                      [name |-> instance.name, book_count |-> book_count])])
                /\ destroying' = Idle
           ELSE /\ destroying' = [destroying EXCEPT !.pc = "counted"]
                /\ UNCHANGED last
        /\ Unchanged
        /\ UNCHANGED creating
        /\ RaceLibraryUnchanged

(* destroy, third statement: self.perform_destroy(instance), that is
   instance.delete() with its cascade over the books found then, and the
   200 answer *)
AuthorDeleteView_perform_destroy ==
    LET pk == destroying.pk
        R(status, body) == Response("AuthorDeleteView", "DELETE", destroying.user, pk,
                                    NoData, status, body)
    IN  /\ destroying.pc = "counted"
        /\ Author_delete(pk)
        /\ last' = R(200, [message |-> FString(
              <<"Author", "{author_name}", "has", "been", "successfully", "deleted", ".">>,
              [author_name |-> destroying.instance.name])])
        /\ destroying' = Idle
        /\ UNCHANGED <<next_author_id, next_book_id, creating>>
        /\ RaceLibraryUnchanged

(* create, first statement: permission check and
   serializer.is_valid(raise_exception=True) *)
BookCreateView_is_valid(w, cred, data) ==
    LET user == Authenticate(cred)
        R(status, body) == Response("BookCreateView", "POST", user, 0, data, status, body)
        errors == BookSerializer_errors(data, NoInstance, FALSE)
    IN  /\ creating[w].pc = "idle"
        /\ IF ~BookCreateView_permission(user)
           THEN /\ last' = R(permission_denied(user), DeniedBody(user))
                /\ UNCHANGED creating
           ELSE IF DOMAIN errors # {}
           THEN /\ last' = R(400, errors)
                /\ UNCHANGED creating
           ELSE /\ creating' = [creating EXCEPT ![w] =
                                   [pc |-> "is_valid", user |-> user, data |-> data,
                                    attrs |-> BookAttrs(data, NoInstance)]]
                /\ UNCHANGED last
        /\ Unchanged
        /\ UNCHANGED destroying
        /\ RaceLibraryUnchanged

(* create, second statement: self.perform_create(serializer), that is
   Book.objects.create, whose save runs full_clean on the tables as they are
   now, and the 201 answer; an exception of the save is a 500 *)
BookCreateView_perform_create(w) ==
    LET user == creating[w].user
        data == creating[w].data
        row == BookSerializer_create(creating[w].attrs)
        R(status, body) == Response("BookCreateView", "POST", user, 0, data, status, body)
    IN  /\ creating[w].pc = "is_valid"
        /\ creating' = [creating EXCEPT ![w] = Idle]
        /\ IF Book_full_clean_raises(row)
           THEN /\ last' = R(500, ValidationError)
                /\ Unchanged
           ELSE /\ next_book_id <= MaxBooks
                /\ books' = Book_save(row)
                /\ next_book_id' = next_book_id + 1
                /\ UNCHANGED <<authors, next_author_id>>
                /\ last' = R(201, [message |-> <<"Book", "created", "successfully">>,
                                   book |-> [id |-> row.id, title |-> Book_clean(row.title),
                                             publication_year |-> row.publication_year,
                                             author |-> row.author,
                                             author_name |-> AuthorName(row.author)],
                                   links |-> [detail |-> row.id, list |-> "book-list"]])
        /\ UNCHANGED destroying
        /\ RaceLibraryUnchanged

(* the form data of the creation requests: two titles for either author *)
RaceBookData ==
    { [title |-> t, publication_year |-> current_year, author |-> a] :
        t \in { <<UpperA>>, <<SP, LowerA>> }, a \in AuthorIdInputs }

RaceNext ==
    \/ \E cred \in Credentials, pk \in AuthorIdInputs : AuthorDeleteView_get_object(cred, pk)
    \/ AuthorDeleteView_count
    \/ AuthorDeleteView_perform_destroy
    \/ \E w \in Creators, cred \in Credentials, data \in RaceBookData :
          BookCreateView_is_valid(w, cred, data)
    \/ \E w \in Creators : BookCreateView_perform_create(w)
    \/ Receive

RaceSpec == RaceInit /\ [][RaceNext]_vars

----------------------------------------------------------------------------
(* Properties.  A step that serves a request sets last' to the request and
   its response; the unprimed store is the store the request found. *)

StoreUnchanged == authors' = authors /\ books' = books

IsAdmin(user) == user # Anonymous /\ is_staff(user)

(* C1: a DELETE on AuthorDeleteView by an admin for an author that has at
   least one book is answered 400 with an 'error' entry, and the authors and
   the books stay as they were. *)
C1_DeleteAuthorWithBooksRefused ==
    [][ ( /\ last'.view = "AuthorDeleteView"
          /\ IsAdmin(last'.user)
          /\ last'.pk \in AuthorIds
          /\ BooksOf(last'.pk) # {} )
        => ( /\ last'.status = 400
             /\ "error" \in DOMAIN last'.body
             /\ StoreUnchanged ) ]_vars

C1_Witness ==
    /\ last.view = "AuthorDeleteView"
    /\ IsAdmin(last.user)
    /\ last.status = 400
    /\ last.pk \in AuthorIds
    /\ BooksOf(last.pk) # {}

(* a body BookSerializer accepts for a create in the current store *)
AcceptableNewBook(data) ==
    /\ BookFields \subseteq DOMAIN data
    /\ Strip(data.title) # <<>>
    /\ Len(Strip(data.title)) <= Book_max_length
    /\ data.publication_year >= MinYear
    /\ data.publication_year <= current_year
    /\ data.author \in AuthorIds
    /\ ~ \E b \in books : b.title = Strip(data.title) /\ b.author = data.author

(* the step re-sends to BookCreateView, now with a token, the body that was
   just refused for want of credentials *)
ResentWithToken ==
    /\ last.view = "BookCreateView"
    /\ last.status = 401
    /\ last'.view = "BookCreateView"
    /\ last'.user # Anonymous
    /\ last'.data = last.data

(* C2 as stated: a POST to BookCreateView without credentials is answered
   401 and changes no book, whatever its body, and the same body sent next
   with a valid token is answered 201. *)
C2_Original ==
    [][ /\ ( last'.view = "BookCreateView" /\ last'.user = Anonymous
             => last'.status = 401 /\ books' = books )
        /\ ( ResentWithToken => last'.status = 201 ) ]_vars

(* C2 amended: a POST to BookCreateView without credentials is answered 401
   and changes no book, whatever its body; the same body sent next with a
   valid token is answered 201 when the serializer accepts it (all three
   fields, a non-blank title, a year from 1000 to the current year, an
   existing author, no stored book with that title and author) and 400 when
   it does not. *)
C2_UnauthenticatedCreateRefused ==
    [][ /\ ( last'.view = "BookCreateView" /\ last'.user = Anonymous
             => last'.status = 401 /\ books' = books )
        /\ ( ResentWithToken
             => last'.status = (IF AcceptableNewBook(last'.data) THEN 201 ELSE 400) ) ]_vars

C2_Witness ==
    /\ last.view = "BookCreateView"
    /\ last.user = Anonymous
    /\ last.status = 401
    /\ AcceptableNewBook(last.data)

(* C3: on BookDeleteView a DELETE by an authenticated user who is no admin
   is answered 403 and one without credentials 401, neither changes any
   book, and a step of this view that removes a book serves an admin. *)
C3_DeleteBookNeedsAdmin ==
    [][ last'.view = "BookDeleteView"
        => ( /\ (last'.user = Anonymous => last'.status = 401)
             /\ (last'.user # Anonymous /\ ~IsAdmin(last'.user) => last'.status = 403)
             /\ (~IsAdmin(last'.user) => books' = books)
             /\ (books' # books => IsAdmin(last'.user)) ) ]_vars

C3_Witness ==
    /\ last.view = "BookDeleteView"
    /\ last.user = "testuser"
    /\ last.status = 403
    /\ last.pk \in BookIds

(* C4: a DELETE on BookDeleteView by an admin for a stored book is answered
   200 with a message that contains 'successfully deleted'; exactly that
   book is removed, so there is one book less, and the other books and the
   authors stay as they were. *)
C4_AdminDeletesExactlyThatBook ==
    [][ ( /\ last'.view = "BookDeleteView"
          /\ IsAdmin(last'.user)
          /\ last'.pk \in BookIds )
        => ( /\ last'.status = 200
             /\ "message" \in DOMAIN last'.body
             /\ ContainsWords(last'.body.message.fmt, <<"successfully", "deleted">>)
             /\ books' = books \ { BookById(last'.pk) }
             /\ Cardinality(books') = Cardinality(books) - 1
             /\ authors' = authors ) ]_vars

C4_Witness ==
    /\ last.view = "BookDeleteView"
    /\ IsAdmin(last.user)
    /\ last.status = 200
    /\ last.pk \notin BookIds
    /\ books # {}

(* C5 as stated: a DELETE on AuthorDeleteView by an admin for any stored
   author is answered 200 and there is one author less. *)
C5_Original ==
    [][ ( /\ last'.view = "AuthorDeleteView"
          /\ IsAdmin(last'.user)
          /\ last'.pk \in AuthorIds )
        => ( /\ last'.status = 200
             /\ Cardinality(authors') = Cardinality(authors) - 1 ) ]_vars

(* C5 amended: a DELETE on AuthorDeleteView by an admin for a stored author
   that has no books is answered 200 and removes exactly that author, so
   there is one author less. *)
C5_AdminDeletesAuthorWithoutBooks ==
    [][ ( /\ last'.view = "AuthorDeleteView"
          /\ IsAdmin(last'.user)
          /\ last'.pk \in AuthorIds
          /\ BooksOf(last'.pk) = {} )
        => ( /\ last'.status = 200
             /\ authors' = authors \ { AuthorById(last'.pk) }
             /\ Cardinality(authors') = Cardinality(authors) - 1 ) ]_vars

C5_Witness ==
    /\ last.view = "AuthorDeleteView"
    /\ IsAdmin(last.user)
    /\ last.status = 200
    /\ last.pk \notin AuthorIds
(* the body names all three fields, a title that is not blank, a stored
   author and a year from 1000 to the current year *)
WellFormedNewBook(data) ==
    /\ BookFields \subseteq DOMAIN data
    /\ Strip(data.title) # <<>>
    /\ data.publication_year >= MinYear
    /\ data.publication_year <= current_year
    /\ data.author \in AuthorIds

(* C6 as stated: a POST to BookCreateView by an authenticated user with a
   non-blank title, a stored author and a year from 1000 to the current year
   is answered 201 with the new book under 'book'; the store gains exactly
   one book, with the submitted title, author and year, and keeps the books
   it had. *)
C6_Original ==
    [][ ( /\ last'.view = "BookCreateView"
          /\ last'.user # Anonymous
          /\ WellFormedNewBook(last'.data) )
        => ( /\ last'.status = 201
             /\ "book" \in DOMAIN last'.body
             /\ \E b \in books' \ books :
                   /\ books' = books \cup {b}
                   /\ b.title = last'.data.title
                   /\ b.author = last'.data.author
                   /\ b.publication_year = last'.data.publication_year ) ]_vars

(* C6 amended: such a POST, when the title has at most 200 characters after
   trimming and no stored book has the trimmed title with the same author,
   is answered 201 with the new book under 'book'; the store gains exactly
   one book, with the submitted title trimmed of surrounding whitespace and
   the submitted author and year, and keeps the books it had.  When a stored
   book has that title and author the answer is 400 and nothing is stored. *)
C6_ValidCreateStoresOneBook ==
    [][ ( /\ last'.view = "BookCreateView"
          /\ last'.user # Anonymous
          /\ WellFormedNewBook(last'.data) )
        => IF AcceptableNewBook(last'.data)
           THEN /\ last'.status = 201
                /\ "book" \in DOMAIN last'.body
                /\ \E b \in books' \ books :
                      /\ books' = books \cup {b}
                      /\ Cardinality(books') = Cardinality(books) + 1
                      /\ b.title = Strip(last'.data.title)
                      /\ b.author = last'.data.author
                      /\ b.publication_year = last'.data.publication_year
                      /\ last'.body.book.id = b.id
                      /\ last'.body.book.title = b.title
                      /\ last'.body.book.author = b.author
                      /\ last'.body.book.publication_year = b.publication_year
           ELSE /\ last'.status = 400
                /\ books' = books ]_vars

C6_Witness ==
    /\ last.view = "BookCreateView"
    /\ last.user # Anonymous
    /\ last.status = 201
    /\ Cardinality(books) = 2
    /\ last.data.title # Strip(last.data.title)
    /\ \E b \in books : b.id = last.body.book.id /\ b.title = Strip(last.data.title)

(* C7: a POST to BookCreateView by an authenticated user whose body has an
   empty title and a year after the current one is answered 400 with both
   'title' and 'publication_year' among the keys of the error map, and no
   book is stored. *)
C7_EveryInvalidFieldReported ==
    [][ ( /\ last'.view = "BookCreateView"
          /\ last'.user # Anonymous
          /\ {"title", "publication_year"} \subseteq DOMAIN last'.data
          /\ last'.data.title = <<>>
          /\ last'.data.publication_year > current_year )
        => ( /\ last'.status = 400
             /\ {"title", "publication_year"} \subseteq DOMAIN last'.body
             /\ books' = books ) ]_vars

C7_Witness ==
    /\ last.view = "BookCreateView"
    /\ last.user # Anonymous
    /\ last.status = 400
    /\ {"title", "publication_year"} \subseteq DOMAIN last.data
    /\ last.data.title = <<>>
    /\ last.data.publication_year > current_year
    /\ last.data.author \in AuthorIds

(* a body BookSerializer accepts for an update of book pk in the current
   store; a partial update may leave fields out *)
AcceptableUpdate(data, pk, partial) ==
    LET old == BookById(pk)
        title == IF "title" \in DOMAIN data THEN Strip(data.title) ELSE old.title
        author == IF "author" \in DOMAIN data THEN data.author ELSE old.author
    IN  /\ partial \/ BookFields \subseteq DOMAIN data
        /\ "title" \in DOMAIN data =>
              Strip(data.title) # <<>> /\ Len(Strip(data.title)) <= Book_max_length
        /\ "publication_year" \in DOMAIN data =>
              data.publication_year >= MinYear /\ data.publication_year <= current_year
        /\ "author" \in DOMAIN data => data.author \in AuthorIds
        /\ ~ \E b \in books : b.id # pk /\ b.title = title /\ b.author = author

(* C8: on BookUpdateView a request without credentials is answered 401 and
   leaves the books as they were; a step of this view that changes a book
   serves an authenticated user whose data passes validation, is answered
   200 and changes only the addressed book. *)
C8_UpdateNeedsAuthenticationAndValidData ==
    [][ last'.view = "BookUpdateView"
        => ( /\ (last'.user = Anonymous => last'.status = 401 /\ books' = books)
             /\ (books' # books
                 => /\ last'.user # Anonymous
                    /\ last'.status = 200
                    /\ last'.pk \in BookIds
                    /\ AcceptableUpdate(last'.data, last'.pk, last'.method = "PATCH")
                    /\ { b \in books' : b.id # last'.pk } = { b \in books : b.id # last'.pk } ) ) ]_vars

C8_Witness ==
    /\ last.view = "BookUpdateView"
    /\ last.method = "PUT"
    /\ last.user = Anonymous
    /\ last.status = 401
    /\ last.pk \in BookIds
    /\ "title" \in DOMAIN last.data
    /\ Strip(last.data.title) # <<>>
    /\ Strip(last.data.title) # BookById(last.pk).title

PublicReadViews ==
    { "BookListView", "BookDetailView", "AuthorListView", "AuthorDetailView",
      "BookAdvancedSearchView", "RecentBooksView" }

(* what the GET addresses does not exist: the book or author of a detail
   view, or the endpoint itself *)
AddressedMissing(view, pk) ==
    \/ view \notin urlpatterns
    \/ view = "BookDetailView" /\ pk \notin BookIds
    \/ view = "AuthorDetailView" /\ pk \notin AuthorIds

(* C9: a GET without credentials on the book list, book detail, author list,
   author detail, advanced-search and recent-books endpoints is never
   answered 401 or 403: the status is 404 when what it addresses does not
   exist and 200 otherwise; and it changes no author and no book. *)
C9_PublicReadsOpenAndReadOnly ==
    [][ ( /\ last'.method = "GET"
          /\ last'.user = Anonymous
          /\ last'.view \in PublicReadViews )
        => ( /\ last'.status \notin {401, 403}
             /\ last'.status = (IF AddressedMissing(last'.view, last'.pk) THEN 404 ELSE 200)
             /\ StoreUnchanged ) ]_vars

C9_Witness ==
    /\ last.method = "GET"
    /\ last.user = Anonymous
    /\ last.view = "BookListView"
    /\ last.status = 200
    /\ books # {}

(* code-point order of two titles, as Python's sorted() compares them *)
TitleNotAfter(s, t) == StrLeq(s, t)

(* C10: the results of a GET on BookListView with ordering=-publication_year
   have publication years that never increase, and with ordering=title have
   titles that never decrease. *)
C10_OrderingIsMonotone ==
    ( /\ last.view = "BookListView"
      /\ last.method = "GET"
      /\ last.status = 200 )
    => LET results == last.body.results
       IN  /\ last.data.ordering = "-publication_year"
              => \A i, j \in 1..Len(results) :
                    i < j => results[i].publication_year >= results[j].publication_year
           /\ last.data.ordering = "title"
              => \A i, j \in 1..Len(results) :
                    i < j => TitleNotAfter(results[i].title, results[j].title)

C10_Witness ==
    /\ last.view = "BookListView"
    /\ last.method = "GET"
    /\ last.status = 200
    /\ last.data.ordering = "-publication_year"
    /\ Len(last.body.results) = 2
    /\ last.body.results[1].publication_year > last.body.results[2].publication_year
    /\ StrLess(last.body.results[2].title, last.body.results[1].title)

(* every stored book has a year from 1000 to the current year and a title
   that is not empty once stripped *)
BooksValid ==
    \A b \in books :
        /\ 1000 <= b.publication_year
        /\ b.publication_year <= current_year
        /\ Strip(b.title) # <<>>

(* the data of a save break a bound: year below 1000, year in the future,
   or a title that is empty once stripped *)
BreaksBound(data) ==
    \/ "title" \in DOMAIN data /\ Strip(data.title) = <<>>
    \/ "publication_year" \in DOMAIN data
           /\ (data.publication_year < 1000 \/ data.publication_year > current_year)

ModelSave == last'.view = "Book.save"

SerializerSave ==
    \/ last'.view \in {"BookCreateView", "BookListView"} /\ last'.method = "POST"
    \/ last'.view \in {"BookUpdateView", "BookDetailView"} /\ last'.method \in {"PUT", "PATCH"}

(* C16: whatever creates and updates go through Book.save or BookSerializer,
   every stored book has 1000 <= publication_year <= current year and a
   title that is not empty once stripped; a save whose data break a bound
   raises ValidationError (through a view: is not answered 200 or 201) and
   leaves the stored books as they were *)
C16_StoredBooksStayValid ==
    /\ BooksValid
    /\ [][ /\ BooksValid'
           /\ (ModelSave /\ BreaksBound(last'.data)) =>
                  last'.body = ValidationError /\ books' = books
           /\ (SerializerSave /\ BreaksBound(last'.data)) =>
                  last'.status \notin {200, 201} /\ books' = books ]_vars

(* a save of next year's book on the model raises and the stored book stays *)
C16_Witness ==
    /\ last.view = "Book.save"
    /\ last.data.publication_year = current_year + 1
    /\ Strip(last.data.title) # <<>>
    /\ last.data.author \in AuthorIds
    /\ last.body = ValidationError
    /\ books # {}

----------------------------------------------------------------------------
(* Properties of the queries (QuerySpec) *)

ServedList == last.view = "BookListView" /\ last.method = "GET"

(* the page and the page size a page query asks for *)
AskedPage == IF "page" \in DOMAIN last.data THEN last.data.page.n ELSE 1
AskedSize ==
    IF "page_size" \in DOMAIN last.data
    THEN Min(last.data.page_size.n, 100)
    ELSE 5

(* the stored books a page query's filter lets through *)
PageMatches ==
    { b \in books :
        "publication_year_min" \in DOMAIN last.data =>
            b.publication_year >= last.data.publication_year_min.n }

Ceil(a, b) == (a + b - 1) \div b

PageBody(total_pages) ==
    /\ DOMAIN last.body = {"count", "total_pages", "current_page", "page_size",
                           "next", "previous", "results", "query_metadata"}
    /\ last.body.count = Cardinality(PageMatches)
    /\ last.body.total_pages = total_pages
    /\ last.body.current_page = AskedPage
    /\ last.body.page_size = AskedSize
    /\ Len(last.body.results) =
           Min(AskedSize, Cardinality(PageMatches) - (AskedPage - 1) * AskedSize)

(* C11 as stated: a page query answered 200 reports
   total_pages = ceil(count / p') *)
C11_Original ==
    (ServedList /\ last.data \in PageQueries /\ last.status = 200)
        => PageBody(Ceil(Cardinality(PageMatches), AskedSize))

(* C11: a book-list GET with page = n and page_size = p >= 1 (p' = min(p, 100),
   5 without page_size; n = 1 without page) is answered 200 exactly when
   1 <= n <= total_pages, where total_pages = ceil(count / p') but 1 when no
   book matches, and then carries count = the number of books matching the
   filters, total_pages, current_page = n, page_size = p',
   len(results) = min(p', count - (n-1) * p') and query_metadata; a page
   beyond total_pages is answered 404 *)
C11_PageOfMatchingBooks ==
    (ServedList /\ last.data \in PageQueries) =>
        LET count == Cardinality(PageMatches)
            total_pages == IF count = 0 THEN 1 ELSE Ceil(count, AskedSize)
        IN  IF AskedPage <= total_pages
            THEN last.status = 200 /\ PageBody(total_pages)
            ELSE last.status = 404

(* the second page, of one book, of three books in pages of two *)
C11_Witness ==
    /\ ServedList
    /\ last.data = [page |-> Num(2), page_size |-> Num(2)]
    /\ last.status = 200
    /\ last.body.count = 3
    /\ last.body.total_pages = 2
    /\ Len(last.body.results) = 1

(* the ids of the books a list response shows *)
ResultIds == { last.body.results[i].id : i \in 1..Len(last.body.results) }

(* the results show the books of S, once each, as they are stored *)
ResultsAre(S) ==
    /\ last.body.count = Cardinality(S)
    /\ Len(last.body.results) = Cardinality(S)
    /\ ResultIds = { b.id : b \in S }
    /\ \A i \in 1..Len(last.body.results) :
          \E b \in S :
              /\ last.body.results[i].id = b.id
              /\ last.body.results[i].title = b.title
              /\ last.body.results[i].publication_year = b.publication_year
              /\ last.body.results[i].author = b.author

YearRangeQuery ==
    /\ ServedList
    /\ DOMAIN last.data \subseteq {"publication_year_min", "publication_year_max"}
    /\ \A k \in DOMAIN last.data : last.data[k].kind = "number"

(* C12: a book-list GET with publication_year_min = a and/or
   publication_year_max = b is answered 200 with exactly the stored books
   whose year is >= a (when a is given) and <= b (when b is given) *)
C12_YearRangeInclusive ==
    YearRangeQuery =>
        /\ last.status = 200
        /\ ResultsAre({ b \in books :
              /\ "publication_year_min" \in DOMAIN last.data =>
                     last.data.publication_year_min.n <= b.publication_year
              /\ "publication_year_max" \in DOMAIN last.data =>
                     b.publication_year <= last.data.publication_year_max.n })

(* both bounds equal to the year of one of three books, which alone is shown *)
C12_Witness ==
    /\ YearRangeQuery
    /\ last.data = [publication_year_min |-> Num(2000), publication_year_max |-> Num(2000)]
    /\ { b.publication_year : b \in books } = {1990, 2000, 2001}
    /\ last.status = 200
    /\ Len(last.body.results) = 1
    /\ last.body.results[1].publication_year = 2000

CombinedQuery ==
    /\ ServedList
    /\ DOMAIN last.data = {"author", "search", "ordering"}
    /\ last.data.author.n \in AuthorIds

(* C13: a book-list GET with an author id, a search term and an ordering is
   answered 200 with exactly the books of that author whose title or
   author's name contains the term, letter case ignored, in the requested
   order *)
C13_Original ==
    CombinedQuery =>
        /\ last.status = 200
        /\ ResultsAre({ b \in books :
              /\ b.author = last.data.author.n
              /\ \/ icontains(b.title, last.data.search)
                 \/ icontains(AuthorName(b.author), last.data.search) })
        /\ \A i, j \in 1..Len(last.body.results) :
              i < j => order_by_allows(last.data.ordering,
                                       last.body.results[i], last.body.results[j])

(* the combined query of a stored author's books ends in the FieldError *)
C13_Witness ==
    /\ CombinedQuery
    /\ BooksOf(last.data.author.n) # {}
    /\ last.status = 500

ServedAdvancedSearch ==
    /\ last.view = "BookAdvancedSearchView.get_queryset"
    /\ "exact_title" \notin DOMAIN last.data

(* t is contained in s, letter case ignored: some stretch of s equals t
   letter by letter up to case *)
ContainedIn(t, s) ==
    \E i \in 0..(Len(s) - Len(t)) :
        \A k \in 1..Len(t) : ToLower(s[i + k]) = ToLower(t[k])

(* the criteria a call of get_queryset supplies, each as a test of a book *)
AdvancedMatches ==
    { b \in books :
        /\ ("q" \in DOMAIN last.data /\ last.data.q # <<>>) =>
               \/ ContainedIn(last.data.q, b.title)
               \/ ContainedIn(last.data.q, AuthorName(b.author))
        /\ "author" \in DOMAIN last.data =>
               ContainedIn(last.data.author, AuthorName(b.author))
        /\ "year_min" \in DOMAIN last.data => b.publication_year >= last.data.year_min.n
        /\ "year_max" \in DOMAIN last.data => b.publication_year <= last.data.year_max.n }

(* C14: BookAdvancedSearchView.get_queryset returns exactly the books that
   meet every supplied criterion (q contained in the title or the author's
   name, author contained in the author's name, year >= year_min,
   year <= year_max; containment ignores letter case), each book once; a
   criterion that is not supplied restricts nothing *)
C14_AdvancedSearchIsConjunction ==
    ServedAdvancedSearch =>
        /\ { last.body.results[i] : i \in 1..Len(last.body.results) } = AdvancedMatches
        /\ Len(last.body.results) = Cardinality(AdvancedMatches)

(* a call with q, author and both year bounds that keeps one book of three
   and drops one for its year and one for its author *)
C14_Witness ==
    /\ ServedAdvancedSearch
    /\ last.data = [q |-> <<LowerA>>, author |-> <<UpperZ>>,
                    year_min |-> Num(2000), year_max |-> Num(2000)]
    /\ Cardinality(books) = 3
    /\ Len(last.body.results) = 1
    /\ \E b \in books : b.author = 2 /\ b.publication_year # 2000
    /\ \E b \in books : b.author = 1 /\ b.publication_year = 2000

(* a request with a parameter no filter knows, or with text that is no
   number for publication_year_min *)
InvalidParameterQuery ==
    /\ ServedList
    /\ \/ DOMAIN last.data = {"invalid_param"}
       \/ /\ DOMAIN last.data = {"publication_year_min"}
          /\ last.data.publication_year_min.kind = "text"

(* C15: a book-list GET with an unknown parameter name, or with a
   non-numeric publication_year_min, is answered 200 *)
C15_Original == InvalidParameterQuery => last.status = 200

(* the non-numeric publication_year_min is answered 400 *)
C15_Witness ==
    /\ InvalidParameterQuery
    /\ "publication_year_min" \in DOMAIN last.data
    /\ last.status = 400
    /\ DOMAIN last.body = {"publication_year_min"}

(* the unknown parameter is ignored *)
C15_UnknownParameterIgnored ==
    (ServedList /\ DOMAIN last.data = {"invalid_param"}) =>
        last.status = 200 /\ ResultsAre(books)

DecadeQuery ==
    /\ ServedList
    /\ DOMAIN last.data \subseteq {"decade", "century"}
    /\ DOMAIN last.data # {}

(* C18: a book-list GET with decade = D returns exactly the books with
   D <= publication_year <= D + 9, one with century = C exactly those with
   (C-1)*100 + 1 <= publication_year <= C*100; a value that is not all digits
   restricts nothing; query_metadata lists both parameters *)
C18_Original ==
    DecadeQuery =>
        /\ last.status = 200
        /\ {"decade", "century"} \subseteq
               last.body.query_metadata.filtering_options.custom_filters
        /\ ResultsAre({ b \in books :
              /\ ("decade" \in DOMAIN last.data /\ last.data.decade.kind = "number") =>
                     /\ last.data.decade.n <= b.publication_year
                     /\ b.publication_year <= last.data.decade.n + 9
              /\ ("century" \in DOMAIN last.data /\ last.data.century.kind = "number") =>
                     /\ (last.data.century.n - 1) * 100 + 1 <= b.publication_year
                     /\ b.publication_year <= last.data.century.n * 100 })

(* decade = 1990 shows a book of 2001 *)
C18_Witness ==
    /\ DecadeQuery
    /\ last.data = [decade |-> Num(1990)]
    /\ last.status = 200
    /\ \E i \in 1..Len(last.body.results) : last.body.results[i].publication_year = 2001

(* what the view does with decade and century: nothing *)
C18_DecadeAndCenturyIgnored ==
    DecadeQuery => last.status = 200 /\ ResultsAre(books)

(***************************************************************************)
(* Properties of relationship_app (RbacSpec)                               *)
(***************************************************************************)

(* the step saved an existing user *)
SavedExistingUser == last'.view = "User.save" /\ last'.method = "update"

(* the step inserted a user *)
CreatedUser == last'.view = "User.save" /\ last'.method = "create"

(* C17: after any creations and saves of users every user has exactly one
   UserProfile; the profile made for a new user has role 'Member'; saving an
   existing user adds no profile and changes no role *)
C17_Original ==
    [][ /\ \A u \in customusers' :
               Cardinality(ProfilesOf(u.email, userprofiles')) = 1
        /\ CreatedUser =>
               \A p \in ProfilesOf(last'.user, userprofiles') : p.role = "Member"
        /\ SavedExistingUser => userprofiles' = userprofiles ]_vars

(* an existing user was saved, and has its one profile *)
C17_Witness ==
    /\ last.view = "User.save"
    /\ last.method = "update"
    /\ Cardinality(ProfilesOf(last.user, userprofiles)) = 1
    /\ Cardinality(customusers) = 2

(* the part of C17 about the number of profiles: one for each user, none
   for anybody else *)
C17_OneProfilePerUser ==
    /\ \A u \in customusers : Cardinality(ProfilesOf(u.email, userprofiles)) = 1
    /\ \A p \in userprofiles : \E u \in customusers : u.email = p.user
    /\ Cardinality(userprofiles) = Cardinality(customusers)

(* what saving an existing user does to the roles: the saved user's row
   takes the role that the saved instance holds *)
C17_SaveWritesHeldRole ==
    [][ /\ CreatedUser =>
               \A p \in ProfilesOf(last'.user, userprofiles') : p.role = "Member"
        /\ SavedExistingUser =>
               /\ { [id |-> p.id, user |-> p.user] : p \in userprofiles' }
                      = { [id |-> p.id, user |-> p.user] : p \in userprofiles }
               /\ \A p \in userprofiles' :
                      p.user # last'.user => p \in userprofiles
               /\ held[last'.user] \in { Unheld, userprofile_role(last'.user, userprofiles) }
                      => userprofiles' = userprofiles
               /\ held[last'.user] # Unheld
                      => userprofile_role(last'.user, userprofiles') = held[last'.user] ]_vars

(* a role view answered *)
ServedRoleView == last.view \in { "admin_view", "librarian_view", "member_view" }

(* the role each view is for *)
RoleFor(view) ==
    CASE view = "admin_view" -> "Admin"
      [] view = "librarian_view" -> "Librarian"
      [] view = "member_view" -> "Member"

(* how many of the three tests a user passes *)
TestsPassed(user) ==
    Cardinality({ t \in { "is_admin", "is_librarian", "is_member" } :
        CASE t = "is_admin" -> is_admin(user, userprofiles)
          [] t = "is_librarian" -> is_librarian(user, userprofiles)
          [] t = "is_member" -> is_member(user, userprofiles) })

(* C19: admin_view, librarian_view and member_view are rendered only for a
   user whose profile has the role Admin, Librarian or Member respectively;
   a user with a profile passes exactly one of is_admin, is_librarian and
   is_member; a user without a profile, anonymous included, passes none and
   is shown none of the views *)
C19_RoleViewsOnlyForTheirRole ==
    /\ ServedRoleView =>
          /\ last.status \in { 200, 302 }
          /\ last.status = 200 <=>
                /\ hasattr_userprofile(last.user, userprofiles)
                /\ userprofile_role(last.user, userprofiles) = RoleFor(last.view)
          /\ last.status = 200 <=> last.body = [template |-> "relationship_app/" \o last.view \o ".html"]
    /\ \A user \in Emails \cup { Anonymous } :
          TestsPassed(user) = IF hasattr_userprofile(user, userprofiles) THEN 1 ELSE 0

(* a Librarian was shown librarian_view while the other user is an Admin *)
C19_Witness ==
    /\ last.view = "librarian_view"
    /\ last.status = 200
    /\ userprofile_role(last.user, userprofiles) = "Librarian"
    /\ \E p \in userprofiles : p.role = "Admin"

(* a Member was sent to the login page by admin_view *)
C19_WitnessRefused ==
    /\ last.view = "admin_view"
    /\ last.status = 302
    /\ last.user # Anonymous
    /\ userprofile_role(last.user, userprofiles) = "Member"

(***************************************************************************)
(* Properties of bookshelf (PostSpec)                                      *)
(***************************************************************************)

EditDeleteViews == { "post_edit", "post_delete", "comment_edit", "comment_delete" }

(* the permission each of the four views asks for *)
PermissionFor(view) ==
    CASE view = "post_edit" -> "bookshelf.can_edit_post"
      [] view = "post_delete" -> "bookshelf.can_delete_post"
      [] view = "comment_edit" -> "bookshelf.can_edit_comment"
      [] view = "comment_delete" -> "bookshelf.can_delete_comment"

(* the answers that only the per-instance predicates give *)
RefusedByPredicate(body) ==
    body \in { HttpResponseForbidden("You don't have permission to edit this post."),
               HttpResponseForbidden("You don't have permission to delete this post."),
               HttpResponseForbidden("You don't have permission to edit this comment."),
               HttpResponseForbidden("You don't have permission to delete this comment.") }

(* the record a request of last is about, if it is there *)
Target(view, pk, post_rows, comment_rows) ==
    IF view \in { "post_edit", "post_delete" }
    THEN { p \in post_rows : p.id = pk }
    ELSE { c \in comment_rows : c.id = pk }

(* C20: post_edit, post_delete, comment_edit and comment_delete change a
   record only for a requester that is logged in and holds the view's
   permission; the per-instance predicate never refuses a request that the
   decorators let through; an author without the permission is refused, so
   authorship alone is not enough to edit or delete *)
C20_PermissionDecidesEditAndDelete ==
    [][ last'.view \in EditDeleteViews =>
          LET holds == /\ last'.user # Anonymous
                       /\ has_perm(last'.user, PermissionFor(last'.view))
          IN  /\ (posts' # posts \/ comments' # comments) => holds
              /\ ~RefusedByPredicate(last'.body)
              /\ ~holds =>
                    /\ posts' = posts
                    /\ comments' = comments
                    /\ last'.status = IF last'.user = Anonymous THEN 302 ELSE 403
                    /\ last'.user # Anonymous => last'.body = PermissionDenied
              /\ (holds /\ Target(last'.view, last'.pk, posts, comments) # {}) =>
                    last'.status \in { 200, 302 }
              /\ (holds /\ Target(last'.view, last'.pk, posts, comments) # {}
                        /\ last'.method = "POST"
                        /\ last'.view \in { "post_delete", "comment_delete" }) =>
                    Target(last'.view, last'.pk, posts', comments') = {} ]_vars

(* a user with can_edit_post has edited a post of another user *)
C20_Witness ==
    /\ last.view = "post_edit"
    /\ last.method = "POST"
    /\ last.status = 302
    /\ last.body = PostListRedirect
    /\ \E u \in customusers : u.email = last.user /\ ~u.is_superuser
    /\ \E p \in posts :
          /\ p.id = last.pk
          /\ p.author # last.user
          /\ p.content = "&lt;b&gt;"

(* the author of a post, without can_delete_post, asked to delete it and
   was refused *)
C20_WitnessAuthorRefused ==
    /\ last.view = "post_delete"
    /\ last.method = "POST"
    /\ last.status = 403
    /\ \E p \in posts : p.id = last.pk /\ p.author = last.user

(* the author of a comment, without can_edit_comment, was refused too *)
C20_WitnessCommentAuthorRefused ==
    /\ last.view = "comment_edit"
    /\ last.method = "POST"
    /\ last.status = 403
    /\ \E c \in comments : c.id = last.pk /\ c.author = last.user

(* a comment was deleted by a user holding can_delete_comment *)
C20_WitnessCommentDeleted ==
    /\ last.view = "comment_delete"
    /\ last.status = 302
    /\ comments = {}
    /\ next_comment_id = 2
    /\ posts # {}

(***************************************************************************)
(* Properties of the API under concurrent requests (RaceSpec)              *)
(***************************************************************************)

(* the step removed an author: only perform_destroy does *)
DeletedAuthor == authors' # authors

(* every stored book has its author *)
BooksReferenceAuthors(book_rows, author_rows) ==
    \A b \in book_rows : \E a \in author_rows : a.id = b.author

(* C21: however a destroy request of AuthorDeleteView interleaves with
   book-creation requests for the same author, the delete answers 400 or the
   author has no books when it is removed, so that a 200 never comes with a
   book deleted by the cascade; and every stored book references an author
   that exists *)
C21_Original ==
    [][ /\ DeletedAuthor =>
              /\ last'.view = "AuthorDeleteView"
              /\ last'.status = 200
              /\ BooksOf(last'.pk) = {}
              /\ books' = books
        /\ BooksReferenceAuthors(books', authors') ]_vars

(* the delete answered 200, its author is gone, and so is the one book that
   was ever created *)
C21_Witness ==
    /\ last.view = "AuthorDeleteView"
    /\ last.status = 200
    /\ last.pk \notin AuthorIds
    /\ next_book_id = 2
    /\ books = {}

(* the part of C21 that holds: no stored book is left without its author,
   and a creation that was validated before its author went answers 500 and
   writes nothing *)
C21_BooksReferenceAuthors ==
    [][ /\ BooksReferenceAuthors(books', authors')
        /\ DeletedAuthor =>
              /\ last'.view = "AuthorDeleteView"
              /\ last'.status = 200
              /\ books' = { b \in books : b.author # last'.pk }
        /\ (last'.view = "BookCreateView" /\ last'.status = 500) => books' = books ]_vars

(* a creation validated for an author answered 500 after the author was
   deleted *)
C21_WitnessCreateFails ==
    /\ last.view = "BookCreateView"
    /\ last.status = 500
    /\ last.data.author \notin AuthorIds

=============================================================================
